---- MODULE Spec2Model ----
(***************************************************************************)
(* Retained-state synchronisation of the supershow overlay: the MQTT       *)
(* client wrapper (shared/mqtt_client.py), the controller's publisher      *)
(* (controller/publisher.py, controller/controller.py) and the production  *)
(* subscriber and replica (production/subscriber.py, state_manager.py).    *)
(***************************************************************************)
EXTENDS Integers, Sequences, FiniteSets, TLC

(***************************************************************************)
(* Bounds of the model.                                                    *)
(***************************************************************************)
MaxDisconnects == 8
TraceCap == 6
MaxOps == 2
MaxInbound == 2
MaxCtlOps == 3
MaxRolls == 2

(***************************************************************************)
(* Program constants.                                                      *)
(***************************************************************************)
ReconnectDelayMin == 1
ReconnectDelayMax == 60

Clients == {"controller", "production"}
\* The monitor script of test_controller.py runs a third client.
Monitor == "test_subscriber"
Processes == Clients \cup {Monitor}
Wildcard == "supershow/#"
PlayerIds == {1, 2}

Min2(a, b) == IF a < b THEN a ELSE b
Max2(a, b) == IF a > b THEN a ELSE b

RECURSIVE Pow2(_)
Pow2(n) == IF n = 0 THEN 1 ELSE 2 * Pow2(n - 1)

VARIABLES
  active,           \* the process, or its router, that the specification studies
  brokerUp,         \* the broker accepts TCP connections
  connected,        \* MQTTClient.connected, per client
  reconnect_delay,  \* MQTTClient.reconnect_delay, per client
  sock,             \* the client library's session: none, connecting, refused, up
  loopRunning,      \* the network loop thread started by loop_start()
  dpc,              \* position of the loop thread inside _on_disconnect
  mpc,              \* position of the main thread of each process
  subs,             \* topic filters the broker holds for each client
  topic_handlers,   \* MQTTClient.topic_handlers: the topics with a handler
  pending,          \* messages queued inside the client library, per client
  pubCalls,         \* publish() calls made so far
  pubOk,            \* publish() calls that returned True
  pubDropped,       \* publish() calls made while not connected
  brokerRecv,       \* messages the broker received
  failures,         \* backoff retries since the last successful connection
  prevFailures,     \* value of failures when the last connection succeeded
  lastSleep,        \* delay of the most recent backoff sleep
  nzDisc,           \* _on_disconnect calls with rc # 0
  cleanDisc,        \* _on_disconnect calls with rc = 0
  sleeps,           \* backoff sleeps started
  reconnects,       \* client.reconnect() calls made by _on_disconnect
  explicitDisc,     \* disconnect() has been called
  calledIn,         \* where the loop thread was when disconnect() was called
  appTold,          \* what the connection callbacks last told the application
  disturbed,        \* since the session was last lost an attempt failed or the main thread called connect()
  trace,            \* connection states passed through since Connected was last left
  match_state,      \* MatchController.match_state
  match_started,    \* MatchController.match_started
  clock,            \* int(time.time()) as read by the controller
  retained,         \* the broker's retained message of each topic
  inflight,         \* messages on their way to the subscribed client, per topic
  replica,          \* ProductionStateManager.match_state
  delivery,         \* how the process under study handled the last inbound message
  pubLog,           \* topics of the publish() calls of the last controller operation
  lastOp,           \* the last controller operation and how it ended
  lastPub,          \* the last value the broker received on each topic
  live,             \* a snapshot reached the broker and no reset followed it
  lateJoin,         \* the subscription was accepted after all that was published
  ops,              \* controller operations carried out, hand-count steps aside
  triple,           \* a (domain, field, instance) of the topic schema
  built,            \* the topic string built for it
  parsed,           \* what the router made of that string
  wire              \* a value of the publisher, its bytes and what the handler is handed

cliVars == <<connected, reconnect_delay, sock, loopRunning, dpc, subs, topic_handlers, pending>>
pubHist == <<pubCalls, pubOk, pubDropped, brokerRecv>>
discHist == <<failures, prevFailures, lastSleep, nzDisc, cleanDisc, sleeps,
              reconnects>>
ctlVars == <<match_state, match_started, clock, pubLog, lastOp, ops>>
busVars == <<retained, inflight, lastPub, live, lateJoin>>
syncVars == <<ctlVars, busVars, replica, delivery>>
topicVars == <<triple, built, parsed, wire>>
vars == <<active, brokerUp, mpc, cliVars, pubHist, discHist, explicitDisc, calledIn, appTold, topicVars,
          disturbed, trace, syncVars>>

(***************************************************************************)
(* ConnectionState of a client, read off the wrapper's fields.             *)
(***************************************************************************)
StateOf(conn, pos, s) ==
  IF conn THEN "Connected"
  ELSE IF pos = "backoff" THEN "Backoff"
  ELSE IF s = "connecting" THEN "Connecting"
  ELSE "Disconnected"

ConnectionState(c) == StateOf(connected[c], dpc[c], sock[c])

Record(tr, st) ==
  IF tr[Len(tr)] = st THEN tr
  ELSE IF tr[Len(tr)] = "Connected" THEN <<"Connected", st>>
  ELSE IF Len(tr) >= TraceCap /\ st # "Connected" THEN tr
  ELSE Append(tr, st)

\* The history of the client under study: a step of another client leaves it.
Disturb(c, b) == disturbed' = IF c = active THEN b ELSE disturbed

\* The trace after a step of client c, from the fields the step leaves.
TraceStep(c) ==
  trace' = IF c = active
             THEN Record(trace, StateOf(connected'[c], dpc'[c], sock'[c]))
             ELSE trace

(***************************************************************************)
(* MQTTClient                                                              *)
(***************************************************************************)
MQTTClientInit ==
  /\ connected = [c \in Processes |-> FALSE]
  /\ reconnect_delay = [c \in Processes |-> ReconnectDelayMin]
  /\ sock = [c \in Processes |-> "none"]
  /\ loopRunning = [c \in Processes |-> FALSE]
  /\ dpc = [c \in Processes |-> "idle"]
  /\ subs = [c \in Processes |-> {}]
  /\ topic_handlers = [c \in Processes |-> {}]
  /\ pending = [c \in Processes |-> 0]

HistInit ==
  /\ pubCalls = 0
  /\ pubOk = 0
  /\ pubDropped = 0
  /\ brokerRecv = 0
  /\ failures = 0
  /\ prevFailures = 0
  /\ lastSleep = 0
  /\ nzDisc = 0
  /\ cleanDisc = 0
  /\ sleeps = 0
  /\ reconnects = 0
  /\ explicitDisc = FALSE
  /\ calledIn = "none"
  /\ appTold = "none"
  /\ disturbed = FALSE
  /\ trace = <<"Disconnected">>

\* connect(): client.connect() opens the TCP connection and sends CONNECT, or
\* raises when the broker is unreachable; loop_start() runs only after it.
ClientConnect(c) ==
  /\ IF brokerUp
       THEN /\ sock' = [sock EXCEPT ![c] = "connecting"]
            /\ loopRunning' = [loopRunning EXCEPT ![c] = TRUE]
       ELSE /\ sock' = [sock EXCEPT ![c] = "none"]
            /\ UNCHANGED loopRunning
  /\ UNCHANGED <<connected, reconnect_delay, dpc, subs, topic_handlers, pending>>

\* The main thread of either process calls connect() first.
Connect(c) ==
  /\ mpc[c] = "init"
  /\ ClientConnect(c)
  /\ Disturb(c, ~brokerUp)
  /\ mpc' = [mpc EXCEPT ![c] = "connect_returned"]
  /\ UNCHANGED <<syncVars, active, brokerUp, pubHist, discHist, explicitDisc, calledIn, appTold, topicVars>>
  /\ TraceStep(c)

\* controller/main.py: after connect() and a short wait, the operator may
\* retry once when the client is not connected; then the window is built.
ControllerCheck(c) ==
  /\ c = "controller"
  /\ mpc[c] = "connect_returned"
  /\ \E retry \in BOOLEAN :
       IF ~connected[c] /\ retry
         THEN ClientConnect(c) /\ Disturb(c, TRUE)
         ELSE UNCHANGED <<cliVars, disturbed>>
  /\ mpc' = [mpc EXCEPT ![c] = "running"]
  /\ UNCHANGED <<syncVars, active, brokerUp, pubHist, discHist, explicitDisc, calledIn, appTold, topicVars>>
  /\ TraceStep(c)

\* The delay _on_connect leaves in reconnect_delay after a successful connect.
DelayAfterConnectKeep(d) == d
DelayAfterConnect(d) == ReconnectDelayMin

\* on_connect_callback(success) or on_disconnect_callback() is invoked: the
\* application of the client under observation is told the new state.
Tell(c, what) ==
  appTold' = IF c = active THEN what ELSE appTold

\* _on_connect(rc), run by the loop thread when CONNACK arrives.
OnConnect(c, rc) ==
  /\ loopRunning[c]
  /\ dpc[c] = "idle"
  /\ sock[c] = "connecting"
  /\ rc # 0 => nzDisc < MaxDisconnects
  /\ IF rc = 0
       THEN /\ connected' = [connected EXCEPT ![c] = TRUE]
            /\ reconnect_delay' =
                 [reconnect_delay EXCEPT ![c] = DelayAfterConnect(@)]
            /\ sock' = [sock EXCEPT ![c] = "up"]
            \* the library sends what it had queued while there was no session
            /\ brokerRecv' = brokerRecv + pending[c]
            /\ pending' = [pending EXCEPT ![c] = 0]
            /\ prevFailures' = failures
            /\ failures' = 0
            /\ UNCHANGED disturbed
       ELSE /\ connected' = [connected EXCEPT ![c] = FALSE]
            /\ sock' = [sock EXCEPT ![c] = "refused"]
            /\ Disturb(c, TRUE)
            /\ UNCHANGED <<reconnect_delay, brokerRecv, pending, prevFailures,
                           failures>>
  /\ UNCHANGED <<syncVars, active, brokerUp, mpc, loopRunning, dpc, subs, topic_handlers>>
  /\ UNCHANGED <<pubCalls, pubOk, pubDropped, lastSleep, nzDisc, cleanDisc,
                 sleeps, reconnects, explicitDisc, calledIn, topicVars>>
  /\ Tell(c, IF rc = 0 THEN "connected" ELSE "refused")
  /\ TraceStep(c)

\* Whether _on_disconnect(rc) goes on to the backoff sleep and the reconnect.
OnDisconnectReconnectsAlways(rc) == TRUE
OnDisconnectReconnectsNever(rc) == FALSE
OnDisconnectReconnects(rc) == rc # 0

\* The position _on_disconnect(rc) is in once it has cleared the flag.
AfterFlagCleared(rc) ==
  IF OnDisconnectReconnects(rc) THEN "disconnected" ELSE "idle"

\* _on_disconnect(rc # 0), first part: the loop thread found the session
\* lost and the handler cleared the flag; the sleep has not begun.
OnDisconnectEnter(c) ==
  /\ loopRunning[c]
  /\ dpc[c] = "idle"
  /\ sock[c] \in {"connecting", "refused", "up"}
  /\ sock[c] # "refused" => nzDisc < MaxDisconnects
  /\ connected' = [connected EXCEPT ![c] = FALSE]
  /\ sock' = [sock EXCEPT ![c] = "none"]
  /\ subs' = [subs EXCEPT ![c] = {}]
  /\ UNCHANGED topic_handlers
  /\ dpc' = [dpc EXCEPT ![c] = AfterFlagCleared(1)]
  /\ nzDisc' = nzDisc + 1
  /\ Disturb(c, sock[c] # "up")
  /\ UNCHANGED <<syncVars, active, brokerUp, mpc, reconnect_delay, loopRunning, pending>>
  /\ UNCHANGED <<pubHist, failures, prevFailures, lastSleep, cleanDisc, sleeps,
                 reconnects, explicitDisc, calledIn, appTold, topicVars>>
  /\ TraceStep(c)

\* The delay the handler sleeps for.
BackoffDelayPlusOne(d) == d + 1
BackoffDelay(d) == d

\* _on_disconnect, second part: time.sleep(self.reconnect_delay) begins.
OnDisconnectSleep(c) ==
  /\ dpc[c] = "disconnected"
  /\ dpc' = [dpc EXCEPT ![c] = "backoff"]
  /\ lastSleep' = BackoffDelay(reconnect_delay[c])
  /\ failures' = failures + 1
  /\ sleeps' = sleeps + 1
  /\ UNCHANGED <<syncVars, active, brokerUp, mpc, connected, reconnect_delay, sock,
                 loopRunning, subs, topic_handlers, pending>>
  /\ UNCHANGED <<pubHist, prevFailures, nzDisc, cleanDisc, reconnects,
                 explicitDisc, calledIn, appTold, topicVars, disturbed>>
  /\ TraceStep(c)

\* The delay the handler stores for the next retry.
NextDelayUncapped(d) == d * 2
NextDelay(d) == Min2(d * 2, ReconnectDelayMax)

\* _on_disconnect, last part: the sleep is over; the delay is doubled and
\* client.reconnect() is called once, its exception caught and logged; then
\* on_disconnect_callback() is invoked.
OnDisconnectWake(c) ==
  /\ dpc[c] = "backoff"
  /\ dpc' = [dpc EXCEPT ![c] = "idle"]
  /\ reconnect_delay' = [reconnect_delay EXCEPT ![c] = NextDelay(@)]
  /\ reconnects' = reconnects + 1
  /\ IF brokerUp
       THEN /\ sock' = [sock EXCEPT ![c] = "connecting"]
            /\ UNCHANGED disturbed
       ELSE /\ UNCHANGED sock
            /\ Disturb(c, TRUE)
  /\ UNCHANGED <<syncVars, active, brokerUp, mpc, connected, loopRunning, subs, topic_handlers, pending>>
  /\ UNCHANGED <<pubHist, failures, prevFailures, lastSleep, nzDisc, cleanDisc,
                 sleeps, explicitDisc, calledIn, topicVars>>
  /\ Tell(c, "disconnected")
  /\ TraceStep(c)

\* The network loop started by loop_start() retries a lost connection by
\* itself while it runs and the handler is not inside a callback.
LoopReconnect(c) ==
  /\ loopRunning[c]
  /\ dpc[c] = "idle"
  /\ sock[c] = "none"
  /\ brokerUp
  /\ sock' = [sock EXCEPT ![c] = "connecting"]
  /\ UNCHANGED <<syncVars, active, brokerUp, mpc, connected, reconnect_delay,
                 loopRunning, dpc, subs, topic_handlers, pending>>
  /\ UNCHANGED <<pubHist, discHist, explicitDisc, calledIn, appTold, topicVars, disturbed>>
  /\ TraceStep(c)

\* disconnect() is called: loop_stop() asks the loop thread to end and waits
\* for it; a handler the thread is in runs to its end first.
DisconnectCall(c) ==
  /\ mpc[c] = "running"
  /\ mpc' = [mpc EXCEPT ![c] = "stopping"]
  /\ explicitDisc' = TRUE
  /\ calledIn' = IF c = active THEN dpc[c] ELSE calledIn
  /\ UNCHANGED <<appTold, topicVars>>
  /\ UNCHANGED <<syncVars, active, brokerUp, cliVars, pubHist, discHist,
                 disturbed, trace>>

\* Whether the loop thread runs once loop_stop() has returned.
LoopAfterStopKeeps(run) == run
LoopAfterStop(run) == FALSE

\* disconnect() returns: the loop thread has ended, client.disconnect() ends
\* the session and runs _on_disconnect(0), and the flag is cleared.
Disconnect(c) ==
  /\ mpc[c] = "stopping"
  /\ dpc[c] = "idle"
  /\ loopRunning' = [loopRunning EXCEPT ![c] = LoopAfterStop(@)]
  /\ connected' = [connected EXCEPT ![c] = FALSE]
  /\ sock' = [sock EXCEPT ![c] = "none"]
  /\ subs' = [subs EXCEPT ![c] = {}]
  /\ UNCHANGED topic_handlers
  /\ IF sock[c] # "none"
       THEN /\ dpc' = [dpc EXCEPT ![c] = AfterFlagCleared(0)]
            /\ cleanDisc' = cleanDisc + 1
       ELSE UNCHANGED <<dpc, cleanDisc>>
  /\ mpc' = [mpc EXCEPT ![c] = "stopped"]
  /\ UNCHANGED <<syncVars, active, brokerUp, reconnect_delay, pending>>
  /\ UNCHANGED <<pubHist, failures, prevFailures, lastSleep, nzDisc, sleeps,
                 reconnects, disturbed, explicitDisc, calledIn, topicVars>>
  /\ IF sock[c] # "none" THEN Tell(c, "disconnected") ELSE UNCHANGED appTold
  /\ TraceStep(c)

\* subscribe(topic): refused while the flag is clear, else the filter is
\* handed to the broker.
SubscribeAcceptedAlways(conn) == TRUE
SubscribeAccepted(conn) == conn

\* MQTTClient.subscribe(topic, qos, handler) called with the flag conn, the
\* filters held and the handlers registered: what it returns and leaves.
subscribe(conn, held, handlers, topic, handler) ==
  IF ~SubscribeAccepted(conn)
    THEN [ok |-> FALSE, subs |-> held, topic_handlers |-> handlers]
    ELSE [ok |-> TRUE, subs |-> held \cup {topic},
          topic_handlers |-> IF handler THEN handlers \cup {topic}
                             ELSE handlers]

\* ProductionSubscriber.subscribe_all(), called by production/main.py right
\* after connect() returned, passes no handler; the broker answers an
\* accepted subscription with the retained message of every matching topic.
SubscribeAll(c) ==
  /\ c = "production"
  /\ mpc[c] = "connect_returned"
  /\ LET res == subscribe(connected[c], subs[c], topic_handlers[c], Wildcard,
                          FALSE)
     IN /\ subs' = [subs EXCEPT ![c] = res.subs]
        /\ topic_handlers' = [topic_handlers EXCEPT ![c] = res.topic_handlers]
        /\ IF res.ok
             THEN /\ inflight' = [t \in DOMAIN retained |-> <<retained[t]>>]
                  /\ lateJoin' = TRUE
             ELSE UNCHANGED <<inflight, lateJoin>>
  /\ mpc' = [mpc EXCEPT ![c] = "running"]
  /\ UNCHANGED <<active, brokerUp, connected, reconnect_delay, sock,
                 loopRunning, dpc, pending>>
  /\ UNCHANGED <<pubHist, discHist, explicitDisc, calledIn, appTold, topicVars, disturbed, trace>>
  /\ UNCHANGED <<ctlVars, retained, lastPub, live, replica, delivery>>

(***************************************************************************)
(* Python values that travel as payloads.                                  *)
(***************************************************************************)
PyNone == [t |-> "none", s |-> "", n |-> 0, l |-> <<>>]
PyStr(x) == [t |-> "str", s |-> x, n |-> 0, l |-> <<>>]
PyInt(k) == [t |-> "int", s |-> "", n |-> k, l |-> <<>>]
PyList(q) == [t |-> "list", s |-> "", n |-> 0, l |-> q]
EmptyDict == [t |-> "dict"]

\* Python truthiness of a value.
Truthy(v) ==
  CASE v.t = "none" -> FALSE
    [] v.t = "str" -> v.s # ""
    [] v.t = "int" -> v.n # 0
    [] v.t = "list" -> v.l # <<>>
    [] OTHER -> DOMAIN v # {"t"}

\* Strings whose text is itself a JSON document, with the value it denotes.
JsonStrings == [x \in {"7"} |-> PyInt(7)]

\* publish() lines 189-192: a str goes out as its own text, anything else as
\* json.dumps(payload).  The bytes are kept as the value they parse to, or as
\* the raw text when they are not JSON.
Encode(v) ==
  IF v.t = "str"
    THEN IF v.s \in DOMAIN JsonStrings
           THEN [json |-> TRUE, val |-> JsonStrings[v.s]]
           ELSE [json |-> FALSE, val |-> v]
    ELSE [json |-> TRUE, val |-> v]

\* _on_message lines 385-391: json.loads, else the text itself.
Decode(w) == w.val

(***************************************************************************)
(* Topics: a topic string is kept as its "/"-separated segments.           *)
(***************************************************************************)
Topics ==
  [ MATCH_INIT |-> <<"supershow", "match", "init">>,
    MATCH_RESET |-> <<"supershow", "match", "reset">>,
    MATCH_TITLE |-> <<"supershow", "match", "title">>,
    MATCH_STIPULATIONS |-> <<"supershow", "match", "stipulations">>,
    MATCH_CROWD_METER |-> <<"supershow", "match", "crowd_meter">>,
    PLAYER_COMPETITOR |-> <<"supershow", "player", "{player_id}", "competitor">>,
    PLAYER_HAND_COUNT |-> <<"supershow", "player", "{player_id}", "hand_count">>,
    PLAYER_DECK_COUNT |-> <<"supershow", "player", "{player_id}", "deck_count">>,
    PLAYER_DISCARD |-> <<"supershow", "player", "{player_id}", "discard">>,
    PLAYER_IN_PLAY |-> <<"supershow", "player", "{player_id}", "in_play">>,
    PLAYER_TURN_ROLL |-> <<"supershow", "player", "{player_id}", "turn_roll">>,
    PLAYER_TURNS_WON |-> <<"supershow", "player", "{player_id}", "turns_won">>,
    PLAYER_TURNS_PASSED |-> <<"supershow", "player", "{player_id}", "turns_passed">>,
    EVENT_MATCH_START |-> <<"supershow", "events", "match_start">>,
    EVENT_TURN_ROLL |-> <<"supershow", "events", "turn_roll">>,
    EVENT_CARD_PLAYED |-> <<"supershow", "events", "card_played">>,
    EVENT_CARD_STOPPED |-> <<"supershow", "events", "card_stopped">>,
    EVENT_CARD_DISCARDED |-> <<"supershow", "events", "card_discarded">>,
    EVENT_CARD_TO_HAND |-> <<"supershow", "events", "card_to_hand">>,
    EVENT_CARD_BURIED |-> <<"supershow", "events", "card_buried">>,
    EVENT_CARD_TOPPED |-> <<"supershow", "events", "card_topped">>,
    EVENT_TURN_WON |-> <<"supershow", "events", "turn_won">>,
    EVENT_TURN_PASSED |-> <<"supershow", "events", "turn_passed">>,
    EVENT_CROWD_INCREMENT |-> <<"supershow", "events", "crowd_increment">>,
    EVENT_MATCH_END |-> <<"supershow", "events", "match_end">>,
    CONTROL_HEARTBEAT |-> <<"supershow", "control", "heartbeat">>,
    CONTROL_READY |-> <<"supershow", "control", "ready">> ]

\* str(player_id) and int(text) for the identifiers the model uses.
IntText == [k \in 0..9 |-> <<"0", "1", "2", "3", "4", "5", "6", "7", "8", "9">>[k + 1]]

\* Topics.player_topic: base_topic.format(player_id=player_id)
player_topic(base_topic, player_id) ==
  [k \in DOMAIN base_topic |->
     IF base_topic[k] = "{player_id}" THEN IntText[player_id]
     ELSE base_topic[k]]

(***************************************************************************)
(* MatchPublisher                                                          *)
(***************************************************************************)
\* One publish_* call of the publisher: the Topics attribute it reads, the
\* player (0 for a match topic) and the payload it hands to mqtt.publish.
Step(attr, pid, payload) == [attr |-> attr, pid |-> pid, payload |-> payload]

publish_match_init(ms) ==
  Step("MATCH_INIT", 0,
       [t |-> "dict",
        match_id |-> PyStr(ms.match_id),
        title |-> PyStr(ms.title),
        stipulations |-> PyStr(ms.stipulations),
        player1_competitor |-> ms.player[1].competitor_uuid,
        player2_competitor |-> ms.player[2].competitor_uuid,
        started_at |-> ms.started_at])

\* A reset that overwrites a field topic instead.
publish_match_reset_title == Step("MATCH_TITLE", 0, PyStr(""))
publish_match_reset == Step("MATCH_RESET", 0, EmptyDict)
publish_match_title(title) == Step("MATCH_TITLE", 0, PyStr(title))
publish_match_stipulations(x) == Step("MATCH_STIPULATIONS", 0, PyStr(x))
publish_crowd_meter(value) == Step("MATCH_CROWD_METER", 0, PyInt(value))

publish_player_competitor(pid, uuid) ==
  Step("PLAYER_COMPETITOR", pid, IF Truthy(uuid) THEN uuid ELSE PyStr(""))
publish_player_hand_count(pid, count) == Step("PLAYER_HAND_COUNT", pid, PyInt(count))
publish_player_deck_count(pid, count) == Step("PLAYER_DECK_COUNT", pid, PyInt(count))
publish_player_turn_roll(pid, roll) ==
  Step("PLAYER_TURN_ROLL", pid,
       [t |-> "dict", roll_type |-> PyStr(roll.roll_type), value |-> PyInt(roll.value)])
publish_player_turns_passed(pid, count) ==
  Step("PLAYER_TURNS_PASSED", pid, PyInt(count))
publish_player_finish_roll(pid, value) ==
  Step("PLAYER_FINISH_ROLL", pid, IF value.t # "none" THEN value ELSE PyStr(""))
publish_player_breakout_rolls(pid, rolls) ==
  Step("PLAYER_BREAKOUT_ROLLS", pid, PyList(rolls))

\* The calls publish_all_initial_state makes for one player, in order.
PlayerSnapshot(ms, pid) ==
  << publish_player_competitor(pid, ms.player[pid].competitor_uuid),
     publish_player_hand_count(pid, ms.player[pid].hand_count),
     publish_player_deck_count(pid, ms.player[pid].deck_count),
     publish_player_turns_passed(pid, ms.player[pid].turns_passed),
     publish_player_finish_roll(pid, ms.player[pid].finish_roll),
     publish_player_breakout_rolls(pid, ms.player[pid].breakout_rolls) >>

\* A wrong order: the player records first, the match records after them.
publish_all_initial_state_players_first(ms) ==
  PlayerSnapshot(ms, 1) \o PlayerSnapshot(ms, 2) \o
  << publish_match_init(ms),
     publish_match_title(ms.title),
     publish_match_stipulations(ms.stipulations),
     publish_crowd_meter(ms.crowd_meter) >>

\* publish_all_initial_state: the calls it makes, in order.
publish_all_initial_state(ms) ==
  << publish_match_init(ms),
     publish_match_title(ms.title),
     publish_match_stipulations(ms.stipulations),
     publish_crowd_meter(ms.crowd_meter) >>
  \o PlayerSnapshot(ms, 1) \o PlayerSnapshot(ms, 2)

\* Reading Topics.<attr> raises AttributeError when the class lacks it; the
\* calls before the first such step are made, the rest are not.
RECURSIVE Completed(_)
Completed(steps) ==
  IF steps = <<>> \/ Head(steps).attr \notin DOMAIN Topics THEN <<>>
  ELSE <<Head(steps)>> \o Completed(Tail(steps))

Raises(steps) == Len(Completed(steps)) < Len(steps)

\* The topic a completed step publishes to.
TopicOf(st) ==
  IF st.pid = 0 THEN Topics[st.attr]
  ELSE player_topic(Topics[st.attr], st.pid)

\* publish(): whether the wrapper hands the message to the client library.
PublishSendsAlways(conn) == TRUE
PublishSends(conn) == conn

\* Every publish_* method passes qos=1, retain=True.
Retain(st) == TRUE

RECURSIVE Store(_, _)
Store(ret, steps) ==
  IF steps = <<>> THEN ret
  ELSE LET st == Head(steps)
           kept == [t \in DOMAIN ret \ {TopicOf(st)} |-> ret[t]]
       IN Store(IF Retain(st)
                  THEN (TopicOf(st) :> Encode(st.payload)) @@ kept
                  ELSE ret,
                Tail(steps))

RECURSIVE Forward(_, _)
Forward(inf, steps) ==
  IF steps = <<>> THEN inf
  ELSE LET st == Head(steps)
           tp == TopicOf(st)
           q == IF tp \in DOMAIN inf THEN inf[tp] ELSE <<>>
           kept == [t \in DOMAIN inf \ {tp} |-> inf[t]]
       IN Forward((tp :> Append(q, Encode(st.payload))) @@ kept, Tail(steps))

RECURSIVE Latest(_, _)
Latest(lp, steps) ==
  IF steps = <<>> THEN lp
  ELSE LET st == Head(steps)
           kept == [t \in DOMAIN lp \ {TopicOf(st)} |-> lp[t]]
       IN Latest((TopicOf(st) :> st.payload) @@ kept, Tail(steps))

\* The publish() calls of one controller operation, made by client c:
\* refused while the flag is clear; handed to the library they reach the
\* broker over an established session and wait inside the library otherwise.
Publish(c, steps) ==
  LET n == Len(steps)
      handed == PublishSends(connected[c])
      arrives == handed /\ sock[c] = "up"
  IN /\ pubLog' = [k \in 1..n |-> TopicOf(steps[k])]
     /\ pubCalls' = pubCalls + n
     /\ pubDropped' = IF connected[c] THEN pubDropped ELSE pubDropped + n
     /\ pubOk' = IF arrives THEN pubOk + n ELSE pubOk
     /\ brokerRecv' = IF arrives THEN brokerRecv + n ELSE brokerRecv
     /\ pending' = IF handed /\ ~arrives
                     THEN [pending EXCEPT ![c] = @ + n] ELSE pending
     /\ retained' = IF arrives THEN Store(retained, steps) ELSE retained
     /\ lastPub' = IF arrives THEN Latest(lastPub, steps) ELSE lastPub
     /\ inflight' = IF arrives /\ Wildcard \in subs["production"]
                      THEN Forward(inflight, steps) ELSE inflight
     /\ lateJoin' = (lateJoin /\ ~(arrives /\ n > 0))

(***************************************************************************)
(* MatchController                                                         *)
(***************************************************************************)
InitialPlayer ==
  [ competitor_uuid |-> PyNone, hand_count |-> 0, deck_count |-> 30,
    last_turn_roll |-> PyNone, turns_passed |-> 0, finish_roll |-> PyNone,
    breakout_rolls |-> <<>> ]

\* _create_initial_state
create_initial_state ==
  [ match_id |-> "", title |-> "", stipulations |-> "", crowd_meter |-> 0,
    started_at |-> PyNone, player |-> [p \in PlayerIds |-> InitialPlayer] ]

\* Inputs of the operator's dialogs.
Titles == {"Main Event", "Cage Match"}
Stipulations == {"No DQ"}
CrowdLevels == {3}
CompetitorPairs == {<<"uuid-a", "uuid-b">>}

CanOperate(c) ==
  /\ c = "controller"
  /\ mpc[c] = "running"
  /\ ops < MaxOps

\* start_match: the state is set, the snapshot is published, and only then is
\* match_started set; an exception out of the publisher skips that line.
StartMatch(c, title, stipulations, crowd_meter, p1, p2) ==
  /\ CanOperate(c)
  /\ clock < 9
  /\ LET fresh(uuid) == [InitialPlayer EXCEPT !.competitor_uuid = PyStr(uuid)]
         ms == [ match_id |-> "match-" \o IntText[clock],
                 title |-> title,
                 stipulations |-> stipulations,
                 crowd_meter |-> crowd_meter,
                 started_at |-> PyInt(clock),
                 player |-> (1 :> fresh(p1)) @@ (2 :> fresh(p2)) ]
         steps == publish_all_initial_state(ms)
     IN /\ match_state' = ms
        /\ Publish(c, Completed(steps))
        /\ match_started' = IF Raises(steps) THEN match_started ELSE TRUE
        /\ lastOp' = [op |-> "start_match", raised |-> Raises(steps)]
        /\ live' = (live \/ (PublishSends(connected[c]) /\ sock[c] = "up"))
  /\ clock' = clock + 1
  /\ ops' = ops + 1
  /\ UNCHANGED <<active, brokerUp, mpc, connected, reconnect_delay, sock,
                 loopRunning, dpc, subs, topic_handlers>>
  /\ UNCHANGED <<discHist, explicitDisc, calledIn, appTold, topicVars, disturbed, trace, replica, delivery>>

\* reset_match: the reset signal is published, then the state is recreated.
ResetMatch(c) ==
  /\ CanOperate(c)
  /\ Publish(c, <<publish_match_reset>>)
  /\ match_state' = create_initial_state
  /\ match_started' = FALSE
  /\ lastOp' = [op |-> "reset_match", raised |-> FALSE]
  /\ live' = FALSE
  /\ ops' = ops + 1
  /\ UNCHANGED <<active, brokerUp, mpc, connected, reconnect_delay, sock,
                 loopRunning, dpc, subs, topic_handlers>>
  /\ UNCHANGED <<discHist, explicitDisc, calledIn, appTold, topicVars, disturbed, trace, replica, delivery, clock>>

\* update_title
UpdateTitle(c, title) ==
  /\ CanOperate(c)
  /\ match_state' = [match_state EXCEPT !.title = title]
  /\ Publish(c, IF match_started THEN <<publish_match_title(title)>> ELSE <<>>)
  /\ lastOp' = [op |-> "update_title", raised |-> FALSE]
  /\ ops' = ops + 1
  /\ UNCHANGED <<active, brokerUp, mpc, connected, reconnect_delay, sock,
                 loopRunning, dpc, subs, topic_handlers>>
  /\ UNCHANGED <<discHist, explicitDisc, calledIn, appTold, topicVars, disturbed, trace, replica, delivery, clock,
                 match_started, live>>

\* The value a roll mutator keeps of its argument.
ClampRollNone(value) == value
ClampRoll(value) ==
  IF ~(1 <= value /\ value <= 12) THEN Max2(1, Min2(12, value)) ELSE value

\* The mutators of MatchController: the state a call leaves and the
\* publisher calls it makes when the match has been started.
update_stipulations(ms, stipulations) ==
  [ ms |-> [ms EXCEPT !.stipulations = stipulations],
    calls |-> <<publish_match_stipulations(stipulations)>> ]

update_crowd_meter_ctl(ms, value) ==
  LET v == Max2(0, Min2(10, value))
  IN [ ms |-> [ms EXCEPT !.crowd_meter = v],
       calls |-> <<publish_crowd_meter(v)>> ]

update_turn_roll(ms, player_id, roll_type, value) ==
  LET roll == [t |-> "roll", roll_type |-> roll_type, value |-> ClampRoll(value)]
  IN [ ms |-> [ms EXCEPT !.player[player_id].last_turn_roll = roll],
       calls |-> <<publish_player_turn_roll(player_id, roll)>> ]

\* The deck count the hand-count mutators store with a hand count.
DeckForStale(hand_count) == 30
DeckFor(hand_count) == 30 - hand_count

increment_hand_count(ms, player_id) ==
  LET h == Min2(ms.player[player_id].hand_count + 1, 30)
  IN [ ms |-> [ms EXCEPT !.player[player_id].hand_count = h,
                         !.player[player_id].deck_count = DeckFor(h)],
       calls |-> << publish_player_hand_count(player_id, h),
                    publish_player_deck_count(player_id, DeckFor(h)) >> ]

decrement_hand_count(ms, player_id) ==
  LET h == Max2(ms.player[player_id].hand_count - 1, 0)
  IN [ ms |-> [ms EXCEPT !.player[player_id].hand_count = h,
                         !.player[player_id].deck_count = DeckFor(h)],
       calls |-> << publish_player_hand_count(player_id, h),
                    publish_player_deck_count(player_id, DeckFor(h)) >> ]

\* value is None or an int.
update_finish_roll(ms, player_id, value) ==
  LET v == IF value.t # "none" THEN PyInt(ClampRoll(value.n)) ELSE value
  IN [ ms |-> [ms EXCEPT !.player[player_id].finish_roll = v],
       calls |-> <<publish_player_finish_roll(player_id, v)>> ]

\* The list add_breakout_roll leaves.
BreakoutAfterAddFront(rolls, v) == <<v>> \o rolls
BreakoutAfterAdd(rolls, v) == Append(rolls, v)

add_breakout_roll(ms, player_id, value) ==
  LET rolls == BreakoutAfterAdd(ms.player[player_id].breakout_rolls,
                                ClampRoll(value))
  IN [ ms |-> [ms EXCEPT !.player[player_id].breakout_rolls = rolls],
       calls |-> <<publish_player_breakout_rolls(player_id, rolls)>> ]

clear_breakout_rolls(ms, player_id) ==
  [ ms |-> [ms EXCEPT !.player[player_id].breakout_rolls = <<>>],
    calls |-> <<publish_player_breakout_rolls(player_id, <<>>)>> ]

increment_turns_passed(ms, player_id) ==
  LET n == ms.player[player_id].turns_passed + 1
  IN [ ms |-> [ms EXCEPT !.player[player_id].turns_passed = n],
       calls |-> <<publish_player_turns_passed(player_id, n)>> ]

\* Whether a mutator goes on to its publisher calls.
PublishesWhenAlways(started) == TRUE
PublishesWhen(started) == started

\* One mutator call on the controller: the state is changed first, then, if
\* the match has been started, the publisher is called; an exception out of
\* the publisher leaves the state changed.
Mutation(c, op, player_id, arg, res) ==
  LET calls == IF PublishesWhen(match_started) THEN res.calls ELSE <<>>
  IN /\ c = "controller"
     /\ mpc[c] = "running"
     /\ match_state' = res.ms
     /\ Publish(c, Completed(calls))
     /\ lastOp' = [op |-> op, raised |-> Raises(calls), pid |-> player_id,
                   arg |-> arg]
     /\ UNCHANGED <<active, brokerUp, mpc, connected, reconnect_delay, sock,
                    loopRunning, dpc, subs, topic_handlers>>
     /\ UNCHANGED <<discHist, explicitDisc, calledIn, appTold, topicVars, disturbed,
                    trace, replica, delivery, clock, match_started, live>>

CanMutate == ops < MaxCtlOps

\* Inputs of the operator's controls.
RollInputs == {0, 11, 13}
RollTypeInputs == {"Power"}
CrowdInputs == {11}

UpdateStipulations(c, stipulations) ==
  /\ CanMutate
  /\ Mutation(c, "update_stipulations", 0, PyStr(stipulations),
              update_stipulations(match_state, stipulations))
  /\ ops' = ops + 1

UpdateCrowdMeter(c, value) ==
  /\ CanMutate
  /\ Mutation(c, "update_crowd_meter", 0, PyInt(value),
              update_crowd_meter_ctl(match_state, value))
  /\ ops' = ops + 1

UpdateTurnRoll(c, player_id, roll_type, value) ==
  /\ CanMutate
  /\ Mutation(c, "update_turn_roll", player_id, PyInt(value),
              update_turn_roll(match_state, player_id, roll_type, value))
  /\ ops' = ops + 1

\* The hand count is bounded by its own clamp.
IncrementHandCount(c, player_id) ==
  /\ Mutation(c, "increment_hand_count", player_id,
              PyInt(match_state.player[player_id].hand_count),
              increment_hand_count(match_state, player_id))
  /\ UNCHANGED ops

DecrementHandCount(c, player_id) ==
  /\ Mutation(c, "decrement_hand_count", player_id,
              PyInt(match_state.player[player_id].hand_count),
              decrement_hand_count(match_state, player_id))
  /\ UNCHANGED ops

UpdateFinishRoll(c, player_id, value) ==
  /\ CanMutate
  /\ Mutation(c, "update_finish_roll", player_id, value,
              update_finish_roll(match_state, player_id, value))
  /\ ops' = ops + 1

AddBreakoutRoll(c, player_id, value) ==
  /\ CanMutate
  /\ Mutation(c, "add_breakout_roll", player_id, PyInt(value),
              add_breakout_roll(match_state, player_id, value))
  /\ ops' = ops + 1

ClearBreakoutRolls(c, player_id) ==
  /\ CanMutate
  /\ Mutation(c, "clear_breakout_rolls", player_id, PyNone,
              clear_breakout_rolls(match_state, player_id))
  /\ ops' = ops + 1

IncrementTurnsPassed(c, player_id) ==
  /\ CanMutate
  /\ Mutation(c, "increment_turns_passed", player_id, PyNone,
              increment_turns_passed(match_state, player_id))
  /\ ops' = ops + 1

\* MatchController._get_player: the player the identifier names, or
\* ValueError for any identifier but 1 and 2.
controller_get_player_fallback(player_id) ==
  [raises |-> FALSE, player |-> IF player_id = 1 THEN 1 ELSE 2]
controller_get_player(player_id) ==
  [raises |-> player_id \notin {1, 2},
   player |-> IF player_id = 1 THEN 1 ELSE 2]

\* Identifiers a caller may pass that name no player.
OtherPlayerIds == {0, 3}

\* The mutators that take a player identifier, each with an argument.
PlayerCalls ==
  { "update_turn_roll", "increment_hand_count", "decrement_hand_count",
    "update_finish_roll", "add_breakout_roll", "clear_breakout_rolls",
    "increment_turns_passed" }

PlayerCallResult(ms, op, p) ==
  CASE op = "update_turn_roll" -> update_turn_roll(ms, p, "Power", 7)
    [] op = "increment_hand_count" -> increment_hand_count(ms, p)
    [] op = "decrement_hand_count" -> decrement_hand_count(ms, p)
    [] op = "update_finish_roll" -> update_finish_roll(ms, p, PyInt(7))
    [] op = "add_breakout_roll" -> add_breakout_roll(ms, p, 7)
    [] op = "clear_breakout_rolls" -> clear_breakout_rolls(ms, p)
    [] op = "increment_turns_passed" -> increment_turns_passed(ms, p)

\* A player mutator called with an identifier outside {1, 2}: _get_player
\* is the first thing each of them does with the identifier, and its
\* ValueError ends the call before any assignment or publisher call.
CallWithPlayer(c, op, player_id) ==
  LET who == controller_get_player(player_id)
  IN /\ CanMutate
     /\ IF who.raises
          THEN /\ c = "controller"
               /\ mpc[c] = "running"
               /\ UNCHANGED match_state
               /\ Publish(c, <<>>)
               /\ lastOp' = [op |-> op, raised |-> TRUE, pid |-> player_id,
                             arg |-> PyNone]
               /\ UNCHANGED <<active, brokerUp, mpc, connected,
                              reconnect_delay, sock, loopRunning, dpc, subs,
                              topic_handlers>>
               /\ UNCHANGED <<discHist, explicitDisc, calledIn, appTold,
                              topicVars, disturbed, trace, replica, delivery,
                              clock, match_started, live>>
          ELSE Mutation(c, op, player_id, PyNone,
                        PlayerCallResult(match_state, op, who.player))
     /\ ops' = ops + 1

(***************************************************************************)
(* ProductionStateManager                                                  *)
(***************************************************************************)
ReplicaPlayer ==
  [ competitor_uuid |-> PyNone, hand_count |-> PyInt(0),
    deck_count |-> PyInt(30), last_turn_roll |-> PyNone,
    turns_passed |-> PyInt(0), finish_roll |-> PyNone,
    breakout_rolls |-> PyList(<<>>), discard_pile |-> PyList(<<>>),
    in_play |-> PyList(<<>>) ]

\* MatchState(match_id="", title="", stipulations="", crowd_meter=0,
\*            started_at=None)
EmptyReplica ==
  [ match_id |-> PyStr(""), title |-> PyStr(""), stipulations |-> PyStr(""),
    crowd_meter |-> PyInt(0), started_at |-> PyNone,
    player |-> [p \in PlayerIds |-> ReplicaPlayer] ]

\* _get_player
get_player(player_id) == IF player_id = 1 THEN 1 ELSE 2

\* dict.get(key, default)
Get(d, key, default) == IF key \in DOMAIN d THEN d[key] ELSE default

RollTypes == {"Power", "Technique", "Agility"}

\* An update that writes the field of both players.
update_player_field_both(r, player_id, field, value) ==
  [r EXCEPT !.player = [q \in PlayerIds |->
                          [r.player[q] EXCEPT ![field] = value]]]
update_player_field(r, player_id, field, value) ==
  [r EXCEPT !.player[get_player(player_id)][field] = value]

update_player_competitor(r, player_id, uuid) ==
  update_player_field(r, player_id, "competitor_uuid", uuid)

update_match_init(r, payload) ==
  LET r1 == [r EXCEPT !.match_id = Get(payload, "match_id", PyStr("")),
                      !.title = Get(payload, "title", PyStr("")),
                      !.stipulations = Get(payload, "stipulations", PyStr("")),
                      !.started_at = Get(payload, "started_at", PyNone)]
      p1_uuid == Get(payload, "player1_competitor", PyNone)
      p2_uuid == Get(payload, "player2_competitor", PyNone)
      r2 == IF Truthy(p1_uuid) THEN update_player_competitor(r1, 1, p1_uuid)
            ELSE r1
  IN IF Truthy(p2_uuid) THEN update_player_competitor(r2, 2, p2_uuid) ELSE r2

\* A reset that keeps what the replica holds.
update_match_reset_keep(r) == r
update_match_reset(r) == EmptyReplica

update_match_title(r, title) == [r EXCEPT !.title = title]
update_match_stipulations(r, x) == [r EXCEPT !.stipulations = x]
\* An update that adds to what the replica holds.
update_crowd_meter_add(r, value) ==
  [r EXCEPT !.crowd_meter = PyInt(@.n + value.n)]
update_crowd_meter(r, value) == [r EXCEPT !.crowd_meter = value]

update_player_turn_roll(r, player_id, roll_data) ==
  LET roll_type_str == Get(roll_data, "roll_type", PyStr(""))
      roll_type == IF roll_type_str.t = "str" /\ roll_type_str.s \in RollTypes
                     THEN roll_type_str.s ELSE "Power"
      value == Get(roll_data, "value", PyInt(1))
  IN update_player_field(r, player_id, "last_turn_roll",
                         [t |-> "roll", roll_type |-> roll_type, value |-> value])

(***************************************************************************)
(* ProductionSubscriber                                                    *)
(***************************************************************************)
\* int(parts[2]): the identifier a segment denotes, 0 when it raises.
ParseInt(seg) ==
  IF \E k \in DOMAIN IntText : IntText[k] = seg
    THEN CHOOSE k \in DOMAIN IntText : IntText[k] = seg
    ELSE 0 - 1

IsDict(v) == v.t = "dict"

\* _on_message of the subscriber with the state manager's handlers wired in
\* by production/main.py: the replica after the message.  An exception in a
\* handler is caught and leaves the replica as it was.
Route(r, topic, payload) ==
  CASE topic = Topics.MATCH_INIT ->
         IF IsDict(payload) THEN update_match_init(r, payload) ELSE r
    [] topic = Topics.MATCH_RESET -> update_match_reset(r)
    [] topic = Topics.MATCH_TITLE -> update_match_title(r, payload)
    [] topic = Topics.MATCH_STIPULATIONS -> update_match_stipulations(r, payload)
    [] topic = Topics.MATCH_CROWD_METER -> update_crowd_meter(r, payload)
    [] Len(topic) >= 3 /\ topic[1] = "supershow" /\ topic[2] = "player"
       /\ topic \notin {Topics.MATCH_INIT, Topics.MATCH_RESET,
                        Topics.MATCH_TITLE, Topics.MATCH_STIPULATIONS,
                        Topics.MATCH_CROWD_METER} ->
         IF Len(topic) >= 4 /\ ParseInt(topic[3]) >= 0
           THEN LET player_id == ParseInt(topic[3])
                    field == IF Len(topic) = 4 THEN topic[4] ELSE "/"
                IN CASE field = "competitor" ->
                          update_player_competitor(r, player_id, payload)
                     [] field = "hand_count" ->
                          update_player_field(r, player_id, "hand_count", payload)
                     [] field = "deck_count" ->
                          update_player_field(r, player_id, "deck_count", payload)
                     [] field = "turn_roll" ->
                          IF IsDict(payload)
                            THEN update_player_turn_roll(r, player_id, payload)
                            ELSE r
                     [] field = "turns_passed" ->
                          update_player_field(r, player_id, "turns_passed", payload)
                     [] field = "finish_roll" ->
                          update_player_field(r, player_id, "finish_roll",
                            IF payload.t = "str" /\ payload.s = "" THEN PyNone
                            ELSE payload)
                     [] field = "breakout_rolls" ->
                          update_player_field(r, player_id, "breakout_rolls", payload)
                     [] field = "discard" ->
                          update_player_field(r, player_id, "discard_pile", payload)
                     [] field = "in_play" ->
                          update_player_field(r, player_id, "in_play", payload)
                     [] OTHER -> r
           ELSE r
    [] OTHER -> r

\* Bytes that are not valid UTF-8, as they travel to a client.
InvalidUtf8 ==
  [json |-> FALSE, val |-> [t |-> "bytes", s |-> "", n |-> 0, l |-> <<>>]]

\* message.payload.decode('utf-8') returns.
Decodable(w) == w.val.t # "bytes"

\* db.get_card_by_uuid: a card, None, or an exception.
Lookups == {"found", "not_found", "raises"}

\* update_player_competitor, except clause of the lookup: the exception of
\* the lookup stays inside the handler.
LookupContainedNever(look) == look # "raises"
LookupContained(look) == TRUE

\* The card update_player_competitor hands to the view.
competitor_card(uuid, look) ==
  IF Truthy(uuid) /\ look = "found" THEN "card" ELSE "None"

\* for uuid in uuids
Iterable(v) == v.t \in {"str", "list", "dict"}

\* The callbacks production/main.py wires to the state manager, by the field
\* segment of a per-player topic.
PlayerHandlers ==
  [ competitor |-> "update_player_competitor",
    hand_count |-> "update_player_hand_count",
    deck_count |-> "update_player_deck_count",
    turn_roll |-> "update_player_turn_roll",
    turns_passed |-> "update_player_turns_passed",
    finish_roll |-> "update_player_finish_roll",
    breakout_rolls |-> "update_player_breakout_rolls",
    discard |-> "update_player_discard",
    in_play |-> "update_player_in_play" ]

\* The if/elif chain on the field of a per-player topic: no branch for a
\* field it does not know.
FieldHandlerDefault(field) ==
  IF field \in DOMAIN PlayerHandlers THEN PlayerHandlers[field]
  ELSE "update_player_hand_count"
FieldHandler(field) ==
  IF field \in DOMAIN PlayerHandlers THEN PlayerHandlers[field] ELSE "none"

MatchTopics ==
  {Topics.MATCH_INIT, Topics.MATCH_RESET, Topics.MATCH_TITLE,
   Topics.MATCH_STIPULATIONS, Topics.MATCH_CROWD_METER}

\* topic.startswith("supershow/player/")
PlayerPrefix(topic) ==
  Len(topic) >= 3 /\ topic[1] = "supershow" /\ topic[2] = "player"

\* int(parts[2]) raises ValueError.
IntRaises(topic) ==
  topic \notin MatchTopics /\ PlayerPrefix(topic) /\ Len(topic) >= 4
  /\ ParseInt(topic[3]) < 0

\* The state-manager method the router calls for a topic, "none" when it
\* calls none.
Selected(topic) ==
  CASE topic = Topics.MATCH_INIT -> "update_match_init"
    [] topic = Topics.MATCH_RESET -> "update_match_reset"
    [] topic = Topics.MATCH_TITLE -> "update_match_title"
    [] topic = Topics.MATCH_STIPULATIONS -> "update_match_stipulations"
    [] topic = Topics.MATCH_CROWD_METER -> "update_crowd_meter"
    [] topic \notin MatchTopics /\ PlayerPrefix(topic) /\ Len(topic) = 4
       /\ ParseInt(topic[3]) >= 0 -> FieldHandler(topic[4])
    [] OTHER -> "none"

\* The handler consults the card database for this payload.
Consults(h, payload) ==
  CASE h = "update_player_competitor" -> Truthy(payload)
    [] h = "update_match_init" ->
         /\ IsDict(payload)
         /\ \/ Truthy(Get(payload, "player1_competitor", PyNone))
            \/ Truthy(Get(payload, "player2_competitor", PyNone))
    [] h \in {"update_player_discard", "update_player_in_play"} ->
         Iterable(payload) /\ Truthy(payload)
    [] OTHER -> FALSE

\* The handler raises: payload.get / roll_data.get on a value that is no
\* dict, iteration over a value that cannot be iterated, a lookup whose
\* exception is not kept inside.
HandlerRaises(h, payload, look) ==
  CASE h = "update_match_init" ->
         ~IsDict(payload)
         \/ (Consults(h, payload) /\ ~LookupContained(look))
    [] h = "update_player_turn_roll" -> ~IsDict(payload)
    [] h = "update_player_competitor" ->
         Consults(h, payload) /\ ~LookupContained(look)
    [] h \in {"update_player_discard", "update_player_in_play"} ->
         ~Iterable(payload)
    [] OTHER -> FALSE

\* _notify_ui: one call of the view callback.
notify_ui(update_type, card) == [type |-> update_type, card |-> card]

\* The notification update_player_competitor ends with.
NotifyCompetitor(uuid, look) ==
  <<notify_ui("player_competitor", competitor_card(uuid, look))>>

NoteType ==
  [ update_match_reset |-> "match_reset",
    update_match_title |-> "match_title",
    update_match_stipulations |-> "match_stipulations",
    update_crowd_meter |-> "crowd_meter",
    update_player_hand_count |-> "player_hand_count",
    update_player_deck_count |-> "player_deck_count",
    update_player_turn_roll |-> "player_turn_roll",
    update_player_turns_passed |-> "player_turns_passed",
    update_player_finish_roll |-> "player_finish_roll",
    update_player_breakout_rolls |-> "player_breakout_rolls",
    update_player_discard |-> "player_discard",
    update_player_in_play |-> "player_in_play" ]

\* The _notify_ui calls a handler that returns has made, in order.
Notifications(h, payload, look) ==
  CASE h = "none" -> <<>>
    [] h = "update_match_init" ->
         LET p1_uuid == Get(payload, "player1_competitor", PyNone)
             p2_uuid == Get(payload, "player2_competitor", PyNone)
         IN (IF Truthy(p1_uuid) THEN NotifyCompetitor(p1_uuid, look) ELSE <<>>)
            \o (IF Truthy(p2_uuid) THEN NotifyCompetitor(p2_uuid, look) ELSE <<>>)
            \o <<notify_ui("match_init", "")>>
    [] h = "update_player_competitor" -> NotifyCompetitor(payload, look)
    [] OTHER -> <<notify_ui(NoteType[h], "")>>

\* except Exception of the router (subscriber.py line 97) and, behind it, of
\* the client's message callback (mqtt_client.py line 406).
CatchesNever(layer) == FALSE
Catches(layer) == TRUE

\* The record of deliveries is kept in the specification that studies the
\* production process by itself.
Observed == active = "router"

NoDelivery ==
  [ topic |-> <<>>, payload |-> PyNone, handler |-> "none",
    outcome |-> "none", look |-> "", notes |-> <<>>, changed |-> FALSE,
    prev |-> "none", view |-> "", thread |-> "none", prevView |-> "" ]

\* What the view callback does when _notify_ui calls it.
Views == {"ok", "raises"}

\* _notify_ui, except clause: an exception of the view callback stays inside
\* _notify_ui.
NotifyContainedNever(view) == view # "raises"
NotifyContained(view) == TRUE

\* _notify_ui calls self.ui_callback(update_type, data) itself: the view
\* code runs on the thread that runs the handler.
notify_thread(caller) == caller

\* One decoded message through the router and the handler it selects.
Handled(r, topic, payload, look, view) ==
  LET h == Selected(topic)
      broken == IntRaises(topic) \/ HandlerRaises(h, payload, look)
      told == IF broken THEN <<>> ELSE Notifications(h, payload, look)
      escaped == told # <<>> /\ ~NotifyContained(view)
      raised == broken \/ escaped
      after == Route(r, topic, payload)
  IN [ replica |-> after,
       payload |-> payload,
       handler |-> h,
       outcome |-> IF raised
                     THEN IF Catches("router") THEN "caught"
                          ELSE IF Catches("client") THEN "caught_client"
                          ELSE "propagated"
                   ELSE IF h = "none" THEN "dropped" ELSE "applied",
       look |-> IF Consults(h, payload) THEN look ELSE "",
       notes |-> IF escaped THEN <<Head(told)>> ELSE told,
       view |-> IF told # <<>> THEN view ELSE "",
       thread |-> IF told # <<>> THEN notify_thread("loop") ELSE "none" ]

\* decode('utf-8') raises UnicodeDecodeError before any handler is looked up;
\* nothing in _on_message catches it.
Undecoded(r) ==
  [ replica |-> r, payload |-> PyNone, handler |-> "none",
    outcome |-> "propagated", look |-> "", notes |-> <<>>, view |-> "",
    thread |-> "none" ]

\* What the lookups made for one message may return: nothing to choose when
\* its handler makes none, or when no record of the delivery is kept (what a
\* lookup returns reaches the view alone, never the replica).
LookupsOf(topic, w) ==
  IF Observed /\ Decodable(w) /\ Consults(Selected(topic), Decode(w))
    THEN Lookups
    ELSE {""}

\* What the view callback may do for one message, chosen where the record of
\* the delivery is kept.
ViewsOf(topic, w) ==
  IF Observed /\ Decodable(w) /\ Selected(topic) # "none" THEN Views
  ELSE {"ok"}

\* MQTTClient._on_message for one message of topic tp that the broker sends
\* to the production client: decoded, routed, applied.  An exception that
\* leaves the callback ends the network loop thread that called it.
Deliver(tp) ==
  /\ tp \in DOMAIN inflight
  /\ mpc["production"] = "running"
  /\ loopRunning["production"]
  /\ \E look \in LookupsOf(tp, Head(inflight[tp])),
        view \in ViewsOf(tp, Head(inflight[tp])) :
       LET w == Head(inflight[tp])
           res == IF Decodable(w)
                    THEN Handled(replica, tp, Decode(w), look, view)
                    ELSE Undecoded(replica)
       IN /\ replica' = res.replica
          /\ delivery' = IF Observed
                           THEN [ topic |-> tp, payload |-> res.payload,
                                  handler |-> res.handler,
                                  outcome |-> res.outcome,
                                  look |-> res.look, notes |-> res.notes,
                                  changed |-> res.replica # replica,
                                  prev |-> delivery.outcome,
                                  view |-> res.view, thread |-> res.thread,
                                  prevView |-> delivery.view ]
                           ELSE delivery
          /\ loopRunning' = [loopRunning EXCEPT
                               !["production"] = res.outcome # "propagated"]
  /\ inflight' = IF Len(inflight[tp]) = 1
                   THEN [t \in DOMAIN inflight \ {tp} |-> inflight[t]]
                   ELSE [inflight EXCEPT ![tp] = Tail(@)]
  /\ UNCHANGED <<active, brokerUp, mpc, pubHist, discHist,
                 explicitDisc, calledIn, appTold, topicVars, disturbed, trace>>
  /\ UNCHANGED <<connected, reconnect_delay, sock, dpc, subs, topic_handlers,
                 pending>>
  /\ UNCHANGED <<ctlVars, retained, lastPub, live, lateJoin>>

\* Messages other clients of the bus publish: any client with access to the
\* broker may publish to any topic of the namespace.
InboundTopics ==
  {<<"supershow", "player", i, f>> :
     i \in {"0", "1", "2", "3"}, f \in {"hand_count", "deck_count"}}

InboundPayloads == {PyInt(5), PyInt(7)}

\* The broker forwards a message published by another client to the
\* subscribed production client.
BrokerForward(tp, payload) ==
  /\ Wildcard \in subs["production"]
  /\ brokerRecv < MaxInbound
  /\ brokerRecv' = brokerRecv + 1
  /\ LET q == IF tp \in DOMAIN inflight THEN inflight[tp] ELSE <<>>
         kept == [t \in DOMAIN inflight \ {tp} |-> inflight[t]]
     IN inflight' = (tp :> Append(q, Encode(payload))) @@ kept
  /\ UNCHANGED <<active, brokerUp, mpc, cliVars, discHist, explicitDisc,
                 calledIn, appTold, topicVars, disturbed, trace>>
  /\ UNCHANGED <<pubCalls, pubOk, pubDropped>>
  /\ UNCHANGED <<ctlVars, retained, lastPub, live, lateJoin, replica, delivery>>

\* What other clients may publish to the namespace: well-formed state,
\* values out of range, payloads of the wrong shape, instances and fields
\* the schema does not know.
Message(topic, payload) == [topic |-> topic, payload |-> payload]

ReplicaInbound ==
  << Message(Topics.MATCH_INIT,
             [t |-> "dict", match_id |-> PyStr("m1"),
              title |-> PyStr("Main Event"), stipulations |-> PyStr("No DQ"),
              player1_competitor |-> PyStr("uuid-a"),
              player2_competitor |-> PyStr("uuid-b"),
              started_at |-> PyInt(1)]),
     Message(Topics.MATCH_INIT, PyStr("Main Event")),
     Message(Topics.MATCH_RESET, EmptyDict),
     Message(Topics.MATCH_TITLE, PyStr("Cage Match")),
     Message(Topics.MATCH_CROWD_METER, PyInt(5)),
     Message(Topics.MATCH_CROWD_METER, PyInt(11)),
     Message(<<"supershow", "match", "winner">>, PyInt(5)),
     Message(<<"supershow", "player", "1", "competitor">>, PyStr("uuid-a")),
     Message(<<"supershow", "player", "1", "hand_count">>, PyInt(31)),
     Message(<<"supershow", "player", "2", "turn_roll">>,
             [t |-> "dict", roll_type |-> PyStr("Power"), value |-> PyInt(13)]),
     Message(<<"supershow", "player", "2", "turn_roll">>,
             [t |-> "dict", roll_type |-> PyStr("Speed"), value |-> PyInt(7)]),
     Message(<<"supershow", "player", "2", "turn_roll">>, PyInt(5)),
     Message(<<"supershow", "player", "x", "hand_count">>, PyInt(5)),
     Message(<<"supershow", "player", "1", "score">>, PyInt(5)),
     Message(<<"supershow", "player", "1", "finish_roll">>, PyInt(13)),
     Message(<<"supershow", "player", "1", "breakout_rolls">>,
             PyList(<<13>>)),
     Message(<<"supershow", "player", "1", "discard">>, PyInt(5)) >>

ByteTopics == {Topics.MATCH_TITLE}

\* The broker forwards bytes that are not valid UTF-8, published by another
\* client, to the subscribed production client.
BrokerForwardBytes(tp) ==
  /\ Wildcard \in subs["production"]
  /\ brokerRecv < MaxInbound
  /\ brokerRecv' = brokerRecv + 1
  /\ LET q == IF tp \in DOMAIN inflight THEN inflight[tp] ELSE <<>>
         kept == [t \in DOMAIN inflight \ {tp} |-> inflight[t]]
     IN inflight' = (tp :> Append(q, InvalidUtf8)) @@ kept
  /\ UNCHANGED <<active, brokerUp, mpc, cliVars, discHist, explicitDisc,
                 calledIn, appTold, topicVars, disturbed, trace>>
  /\ UNCHANGED <<pubCalls, pubOk, pubDropped>>
  /\ UNCHANGED <<ctlVars, retained, lastPub, live, lateJoin, replica, delivery>>

(***************************************************************************)
(* test_controller.py: a client that monitors the namespace                *)
(***************************************************************************)
\* The topic string of a sequence of segments.
RECURSIVE TopicText(_)
TopicText(tp) ==
  IF Len(tp) = 0 THEN ""
  ELSE IF Len(tp) = 1 THEN tp[1]
  ELSE tp[1] \o "/" \o TopicText(Tail(tp))

\* The broker's match of a topic against the filter supershow/#.
Matches(filter, tp) ==
  filter = Wildcard /\ Len(tp) >= 1 /\ tp[1] = "supershow"

\* _on_message line 396: topic in self.topic_handlers, a dictionary keyed by
\* the strings subscribe() was called with.
HandlerRegistered(handlers, tp) == TopicText(tp) \in handlers

\* mqtt.subscribe("supershow/#", on_message) after connect() returned, with
\* the callback as the second positional argument (where it is taken as the
\* qos, which the client library refuses) or as handler=on_message.
MonitorSubscribe(c, as_handler) ==
  /\ c = Monitor
  /\ mpc[c] = "connect_returned"
  /\ LET res == IF as_handler
                  THEN subscribe(connected[c], subs[c], topic_handlers[c],
                                 Wildcard, TRUE)
                  ELSE [ok |-> FALSE, subs |-> subs[c],
                        topic_handlers |-> topic_handlers[c]]
     IN /\ subs' = [subs EXCEPT ![c] = res.subs]
        /\ topic_handlers' = [topic_handlers EXCEPT ![c] = res.topic_handlers]
        /\ IF res.ok
             THEN /\ inflight' = [t \in DOMAIN retained |-> <<retained[t]>>]
                  /\ lateJoin' = TRUE
             ELSE UNCHANGED <<inflight, lateJoin>>
  /\ mpc' = [mpc EXCEPT ![c] = "running"]
  /\ UNCHANGED <<active, brokerUp, connected, reconnect_delay, sock,
                 loopRunning, dpc, pending>>
  /\ UNCHANGED <<pubHist, discHist, explicitDisc, calledIn, appTold, topicVars, disturbed, trace>>
  /\ UNCHANGED <<ctlVars, retained, lastPub, live, replica, delivery>>

\* The broker forwards a message published by another client to the monitor
\* when a filter the monitor holds matches its topic.
MonitorForward(tp, payload) ==
  /\ \E f \in subs[Monitor] : Matches(f, tp)
  /\ brokerRecv < MaxInbound
  /\ brokerRecv' = brokerRecv + 1
  /\ LET q == IF tp \in DOMAIN inflight THEN inflight[tp] ELSE <<>>
         kept == [t \in DOMAIN inflight \ {tp} |-> inflight[t]]
     IN inflight' = (tp :> Append(q, Encode(payload))) @@ kept
  /\ UNCHANGED <<active, brokerUp, mpc, cliVars, discHist, explicitDisc,
                 calledIn, appTold, topicVars, disturbed, trace>>
  /\ UNCHANGED <<pubCalls, pubOk, pubDropped>>
  /\ UNCHANGED <<ctlVars, retained, lastPub, live, lateJoin, replica, delivery>>

\* MQTTClient._on_message of the monitor: the handler registered for the
\* topic is called; the monitor sets no global message callback.
MonitorDeliver(tp) ==
  /\ tp \in DOMAIN inflight
  /\ mpc[Monitor] = "running"
  /\ loopRunning[Monitor]
  /\ LET w == Head(inflight[tp])
         found == Decodable(w) /\ HandlerRegistered(topic_handlers[Monitor], tp)
     IN /\ delivery' =
             [NoDelivery EXCEPT
                !.topic = tp,
                !.payload = IF Decodable(w) THEN Decode(w) ELSE PyNone,
                !.handler = IF found THEN "on_message" ELSE "none",
                !.outcome = IF ~Decodable(w) THEN "propagated"
                            ELSE IF found THEN "applied" ELSE "dropped",
                !.prev = delivery.outcome]
        /\ loopRunning' = [loopRunning EXCEPT ![Monitor] = Decodable(w)]
  /\ inflight' = IF Len(inflight[tp]) = 1
                   THEN [t \in DOMAIN inflight \ {tp} |-> inflight[t]]
                   ELSE [inflight EXCEPT ![tp] = Tail(@)]
  /\ UNCHANGED <<active, brokerUp, mpc, pubHist, discHist,
                 explicitDisc, calledIn, appTold, topicVars, disturbed, trace>>
  /\ UNCHANGED <<connected, reconnect_delay, sock, dpc, subs, topic_handlers,
                 pending>>
  /\ UNCHANGED <<ctlVars, retained, lastPub, live, lateJoin, replica>>

(***************************************************************************)
(* The topic schema: building a topic string and parsing it back.          *)
(***************************************************************************)
MatchFields == {"init", "reset", "title", "stipulations", "crowd_meter"}

\* The fields the router dispatches for a player.
RoutedPlayerFields ==
  {"competitor", "hand_count", "deck_count", "turn_roll", "turns_passed",
   "finish_roll", "breakout_rolls", "discard", "in_play"}

\* The Topics attribute the code reads for a field of a domain.
TopicAttr ==
  [ match |-> [ init |-> "MATCH_INIT", reset |-> "MATCH_RESET",
                title |-> "MATCH_TITLE",
                stipulations |-> "MATCH_STIPULATIONS",
                crowd_meter |-> "MATCH_CROWD_METER" ],
    player |-> [ competitor |-> "PLAYER_COMPETITOR",
                 hand_count |-> "PLAYER_HAND_COUNT",
                 deck_count |-> "PLAYER_DECK_COUNT",
                 turn_roll |-> "PLAYER_TURN_ROLL",
                 turns_passed |-> "PLAYER_TURNS_PASSED",
                 finish_roll |-> "PLAYER_FINISH_ROLL",
                 breakout_rolls |-> "PLAYER_BREAKOUT_ROLLS",
                 discard |-> "PLAYER_DISCARD",
                 in_play |-> "PLAYER_IN_PLAY" ] ]

Triple(domain, field, instance) ==
  [domain |-> domain, field |-> field, instance |-> instance]

NotBuilt == [st |-> "none", topic |-> <<>>]
NotParsed == [st |-> "none", triple |-> Triple("", "", 0)]

\* Building the topic of a triple as the publisher does: Topics.<ATTR> for a
\* match field, Topics.player_topic(Topics.<ATTR>, instance) for a player
\* field; reading an attribute the class lacks raises AttributeError.
BuildTopic(tr) ==
  LET attr == TopicAttr[tr.domain][tr.field]
  IN IF attr \notin DOMAIN Topics THEN [st |-> "raised", topic |-> <<>>]
     ELSE [st |-> "ok",
           topic |-> IF tr.domain = "player"
                       THEN player_topic(Topics[attr], tr.instance)
                       ELSE Topics[attr]]

\* The (domain, field, instance) the router dispatches a topic string to, as
\* the branches of ProductionSubscriber._on_message decide it.
ParseTopic(topic) ==
  CASE topic = Topics.MATCH_INIT -> [st |-> "ok", triple |-> Triple("match", "init", 0)]
    [] topic = Topics.MATCH_RESET -> [st |-> "ok", triple |-> Triple("match", "reset", 0)]
    [] topic = Topics.MATCH_TITLE -> [st |-> "ok", triple |-> Triple("match", "title", 0)]
    [] topic = Topics.MATCH_STIPULATIONS ->
         [st |-> "ok", triple |-> Triple("match", "stipulations", 0)]
    [] topic = Topics.MATCH_CROWD_METER ->
         [st |-> "ok", triple |-> Triple("match", "crowd_meter", 0)]
    [] Len(topic) >= 3 /\ topic[1] = "supershow" /\ topic[2] = "player"
       /\ topic \notin {Topics.MATCH_INIT, Topics.MATCH_RESET,
                        Topics.MATCH_TITLE, Topics.MATCH_STIPULATIONS,
                        Topics.MATCH_CROWD_METER} ->
         IF Len(topic) = 4 /\ ParseInt(topic[3]) >= 0
            /\ topic[4] \in RoutedPlayerFields
           THEN [st |-> "ok",
                 triple |-> Triple("player", topic[4], ParseInt(topic[3]))]
           ELSE [st |-> "dropped", triple |-> Triple("", "", 0)]
    [] OTHER -> [st |-> "dropped", triple |-> Triple("", "", 0)]

\* The triples tried: every field of the schema, player instances 0..9.
Triples ==
  {Triple("match", f, 0) : f \in MatchFields}
  \cup {Triple("player", f, i) : f \in RoutedPlayerFields, i \in DOMAIN IntText}

ValidTriple(tr) == tr.domain = "player" => tr.instance \in PlayerIds

\* A value on its way from a publish_* call to the handler of its topic.
WireIdle ==
  [ st |-> "none", kind |-> "", value |-> PyNone, bytes |-> Encode(PyNone),
    received |-> PyNone ]

TopicsIdle ==
  /\ triple = Triple("", "", 0)
  /\ built = NotBuilt
  /\ parsed = NotParsed
  /\ wire = WireIdle

\* The publisher builds the topic of the triple.
Build ==
  /\ triple \in Triples
  /\ built.st = "none"
  /\ built' = BuildTopic(triple)
  /\ UNCHANGED <<triple, parsed, wire>>
  /\ UNCHANGED <<active, brokerUp, mpc, cliVars, pubHist, discHist,
                 explicitDisc, calledIn, appTold, disturbed, trace, syncVars>>

\* The router parses the topic string that was built.
Parse ==
  /\ built.st = "ok"
  /\ parsed.st = "none"
  /\ parsed' = ParseTopic(built.topic)
  /\ UNCHANGED <<triple, built, wire>>
  /\ UNCHANGED <<active, brokerUp, mpc, cliVars, pubHist, discHist,
                 explicitDisc, calledIn, appTold, disturbed, trace, syncVars>>

\* What the publisher is given to send: titles and stipulations (one of
\* them a numeral), counts, a finish roll that may be unset, breakout rolls.
WireTexts == {"", "Main Event", "Cage Match", "7"}
WireCounts == 0..30
WireFinishRolls == {PyNone} \cup {PyInt(k) : k \in 1..12}
WireRolls ==
  UNION {[1..n -> {1, 12}] : n \in 0..MaxRolls}

WireInputs ==
  {<<k, v>> : k \in {"title", "stipulations"}, v \in WireTexts}
  \cup {<<"hand_count", v>> : v \in WireCounts}
  \cup {<<"finish_roll", v>> : v \in WireFinishRolls}
  \cup {<<"breakout_rolls", v>> : v \in WireRolls}

\* The value the controller publishes, as a Python value.
Published(kind, v) ==
  CASE kind \in {"title", "stipulations"} -> PyStr(v)
    [] kind = "hand_count" -> PyInt(v)
    [] kind = "finish_roll" -> v
    [] kind = "breakout_rolls" -> PyList(v)

\* The payload the publish_* method of the kind hands to mqtt.publish.
SentPayload(kind, v) ==
  CASE kind = "title" -> publish_match_title(v).payload
    [] kind = "stipulations" -> publish_match_stipulations(v).payload
    [] kind = "hand_count" -> publish_player_hand_count(1, v).payload
    [] kind = "finish_roll" -> publish_player_finish_roll(1, v).payload
    [] kind = "breakout_rolls" -> publish_player_breakout_rolls(1, v).payload

\* _handle_player_finish_roll: the empty string stands for None.
handle_player_finish_roll(value) ==
  IF value.t = "str" /\ value.s = "" THEN PyNone ELSE value

\* What the router hands to the state-manager handler of the kind.
HandlerArgument(kind, payload) ==
  IF kind = "finish_roll" THEN handle_player_finish_roll(payload) ELSE payload

\* publish(): the payload becomes the bytes of the message.
WireSend(kind, v) ==
  /\ wire.st = "none"
  /\ wire' = [ st |-> "sent", kind |-> kind, value |-> Published(kind, v),
               bytes |-> Encode(SentPayload(kind, v)), received |-> PyNone ]
  /\ UNCHANGED <<triple, built, parsed>>
  /\ UNCHANGED <<active, brokerUp, mpc, cliVars, pubHist, discHist,
                 explicitDisc, calledIn, appTold, disturbed, trace, syncVars>>

\* _on_message: the bytes are decoded and handed to the handler.
WireReceive ==
  /\ wire.st = "sent"
  /\ wire' = [wire EXCEPT !.st = "received",
                          !.received = HandlerArgument(wire.kind,
                                                       Decode(wire.bytes))]
  /\ UNCHANGED <<triple, built, parsed>>
  /\ UNCHANGED <<active, brokerUp, mpc, cliVars, pubHist, discHist,
                 explicitDisc, calledIn, appTold, disturbed, trace, syncVars>>

\* The broker becomes unreachable, or reachable again.
BrokerDown ==
  /\ brokerUp
  /\ brokerUp' = FALSE
  /\ UNCHANGED <<syncVars, active, mpc, cliVars, pubHist, discHist, explicitDisc, calledIn, appTold, topicVars,
                 disturbed, trace>>

BrokerBack ==
  /\ ~brokerUp
  /\ brokerUp' = TRUE
  /\ UNCHANGED <<syncVars, active, mpc, cliVars, pubHist, discHist, explicitDisc, calledIn, appTold, topicVars,
                 disturbed, trace>>
(***************************************************************************)
(* Specifications                                                          *)
(***************************************************************************)
SyncInitVars ==
  /\ match_state = create_initial_state
  /\ match_started = FALSE
  /\ clock = 1
  /\ retained = <<>>
  /\ inflight = <<>>
  /\ replica = EmptyReplica
  /\ delivery = NoDelivery
  /\ pubLog = <<>>
  /\ lastOp = [op |-> "none", raised |-> FALSE]
  /\ lastPub = <<>>
  /\ live = FALSE
  /\ lateJoin = FALSE
  /\ ops = 0

\* One process, its client facing an unreliable broker.
ConnInit ==
  /\ active \in Clients
  /\ brokerUp \in BOOLEAN
  /\ mpc = [c \in Processes |-> "init"]
  /\ MQTTClientInit
  /\ HistInit
  /\ SyncInitVars
  /\ TopicsIdle

ConnNext ==
  \/ Connect(active)
  \/ ControllerCheck(active)
  \/ SubscribeAll(active)
  \/ OnConnect(active, 0)
  \/ OnConnect(active, 5)
  \/ OnDisconnectEnter(active)
  \/ OnDisconnectSleep(active)
  \/ OnDisconnectWake(active)
  \/ LoopReconnect(active)
  \/ DisconnectCall(active)
  \/ Disconnect(active)
  \/ ResetMatch(active)
  \/ BrokerDown
  \/ BrokerBack

ConnSpec == ConnInit /\ [][ConnNext]_vars

\* Both processes on a reliable broker: the controller operates the match,
\* the production client subscribes and builds its replica.
Init ==
  /\ active = "production"
  /\ brokerUp = TRUE
  /\ mpc = [c \in Processes |-> "init"]
  /\ MQTTClientInit
  /\ HistInit
  /\ SyncInitVars
  /\ TopicsIdle

Next ==
  \/ \E c \in Clients : Connect(c)
  \/ \E c \in Clients : OnConnect(c, 0)
  \/ ControllerCheck("controller")
  \/ SubscribeAll("production")
  \/ \E title \in Titles, st \in Stipulations, cm \in CrowdLevels,
        pair \in CompetitorPairs :
       StartMatch("controller", title, st, cm, pair[1], pair[2])
  \/ ResetMatch("controller")
  \/ \E title \in Titles : UpdateTitle("controller", title)
  \/ \E tp \in DOMAIN inflight : Deliver(tp)

Spec == Init /\ [][Next]_vars

\* The controller alone: its start-up, then the hand-count controls.
HandNext ==
  \/ Connect("controller")
  \/ OnConnect("controller", 0)
  \/ ControllerCheck("controller")
  \/ \E title \in Titles, st \in Stipulations, cm \in CrowdLevels,
        pair \in CompetitorPairs :
       StartMatch("controller", title, st, cm, pair[1], pair[2])
  \/ ResetMatch("controller")
  \/ \E p \in PlayerIds : IncrementHandCount("controller", p)
  \/ \E p \in PlayerIds : DecrementHandCount("controller", p)

HandSpec == Init /\ [][HandNext]_vars

\* The controller alone: its start-up, then the other controls.
CtlNext ==
  \/ Connect("controller")
  \/ OnConnect("controller", 0)
  \/ ControllerCheck("controller")
  \/ \E title \in Titles, st \in Stipulations,
        cm \in CrowdLevels \cup CrowdInputs, pair \in CompetitorPairs :
       StartMatch("controller", title, st, cm, pair[1], pair[2])
  \/ ResetMatch("controller")
  \/ \E title \in Titles : UpdateTitle("controller", title)
  \/ \E st \in Stipulations : UpdateStipulations("controller", st)
  \/ \E cm \in CrowdInputs : UpdateCrowdMeter("controller", cm)
  \/ \E p \in PlayerIds, rt \in RollTypeInputs, v \in RollInputs :
       UpdateTurnRoll("controller", p, rt, v)
  \/ \E p \in PlayerIds, v \in {PyNone} \cup {PyInt(k) : k \in RollInputs} :
       UpdateFinishRoll("controller", p, v)
  \/ \E p \in PlayerIds, v \in RollInputs : AddBreakoutRoll("controller", p, v)
  \/ \E p \in PlayerIds : ClearBreakoutRolls("controller", p)
  \/ \E p \in PlayerIds : IncrementTurnsPassed("controller", p)

CtlSpec == Init /\ [][CtlNext]_vars

\* The controller alone, its player controls called with any identifier.
PlayerIdNext ==
  \/ Connect("controller")
  \/ OnConnect("controller", 0)
  \/ ControllerCheck("controller")
  \/ \E title \in Titles, st \in Stipulations, cm \in CrowdLevels,
        pair \in CompetitorPairs :
       StartMatch("controller", title, st, cm, pair[1], pair[2])
  \/ ResetMatch("controller")
  \/ \E p \in PlayerIds, v \in RollInputs : AddBreakoutRoll("controller", p, v)
  \/ \E p \in PlayerIds : IncrementTurnsPassed("controller", p)
  \/ \E op \in PlayerCalls, p \in OtherPlayerIds :
       CallWithPlayer("controller", op, p)

PlayerIdSpec == Init /\ [][PlayerIdNext]_vars

\* Both processes with the controller's session up and the production
\* subscription in place before the operator touches a control.
Joined ==
  /\ connected["controller"]
  /\ sock["controller"] = "up"
  /\ Wildcard \in subs["production"]

MirrorNext ==
  \/ \E c \in Clients : Connect(c)
  \/ \E c \in Clients : OnConnect(c, 0)
  \/ ControllerCheck("controller")
  \/ SubscribeAll("production")
  \/ \E title \in Titles, st \in Stipulations, cm \in CrowdLevels,
        pair \in CompetitorPairs :
       Joined /\ StartMatch("controller", title, st, cm, pair[1], pair[2])
  \/ (Joined /\ ResetMatch("controller"))
  \/ \E title \in Titles : Joined /\ UpdateTitle("controller", title)
  \/ \E p \in PlayerIds : Joined /\ IncrementTurnsPassed("controller", p)
  \/ \E tp \in DOMAIN inflight : Deliver(tp)

MirrorSpec == Init /\ [][MirrorNext]_vars

\* The production process alone, fed by what other clients publish.
RouterInit == Init

RouterNext ==
  \/ Connect("production")
  \/ OnConnect("production", 0)
  \/ SubscribeAll("production")
  \/ \E tp \in InboundTopics, payload \in InboundPayloads :
       BrokerForward(tp, payload)
  \/ \E tp \in DOMAIN inflight : Deliver(tp)

RouterSpec == RouterInit /\ [][RouterNext]_vars

\* The router and the replica under everything the bus may carry.
ReplicaInit ==
  /\ active = "router"
  /\ brokerUp = TRUE
  /\ mpc = [c \in Processes |-> "init"]
  /\ MQTTClientInit
  /\ HistInit
  /\ SyncInitVars
  /\ TopicsIdle

ReplicaNext ==
  \/ Connect("production")
  \/ OnConnect("production", 0)
  \/ SubscribeAll("production")
  \/ \E i \in DOMAIN ReplicaInbound :
       BrokerForward(ReplicaInbound[i].topic, ReplicaInbound[i].payload)
  \/ \E tp \in ByteTopics : BrokerForwardBytes(tp)
  \/ \E tp \in DOMAIN inflight : Deliver(tp)

ReplicaSpec == ReplicaInit /\ [][ReplicaNext]_vars

\* The monitor script alone, fed by what other clients publish.
MonitorInit ==
  /\ active = Monitor
  /\ brokerUp = TRUE
  /\ mpc = [c \in Processes |-> "init"]
  /\ MQTTClientInit
  /\ HistInit
  /\ SyncInitVars
  /\ TopicsIdle

MonitorNext ==
  \/ Connect(Monitor)
  \/ OnConnect(Monitor, 0)
  \/ \E as_handler \in BOOLEAN : MonitorSubscribe(Monitor, as_handler)
  \/ \E tp \in InboundTopics \cup MatchTopics, payload \in InboundPayloads :
       MonitorForward(tp, payload)
  \/ \E tp \in DOMAIN inflight : MonitorDeliver(tp)

MonitorSpec == MonitorInit /\ [][MonitorNext]_vars

\* The topic schema on its own: a triple is built and parsed back.
TopicInit ==
  /\ active = "production"
  /\ brokerUp = TRUE
  /\ mpc = [c \in Processes |-> "init"]
  /\ MQTTClientInit
  /\ HistInit
  /\ SyncInitVars
  /\ triple \in Triples
  /\ built = NotBuilt
  /\ parsed = NotParsed
  /\ wire = WireIdle

TopicNext == Build \/ Parse

TopicSpec == TopicInit /\ [][TopicNext]_vars

\* Values through publish() and _on_message, one at a time.
WireInit == Init

WireNext ==
  \/ \E in \in WireInputs : WireSend(in[1], in[2])
  \/ WireReceive

WireSpec == WireInit /\ [][WireNext]_vars

\* The loop thread runs its callbacks, the broker answers a connection it
\* accepted and closes one it refused, and each main thread goes on with its
\* start-up; losing the session and the broker's availability are not fair.
ConnFairSpec ==
  /\ ConnSpec
  /\ WF_vars(OnConnect(active, 0))
  /\ WF_vars(OnDisconnectEnter(active) /\ sock[active] = "refused")
  /\ WF_vars(OnDisconnectSleep(active))
  /\ WF_vars(OnDisconnectWake(active))
  /\ WF_vars(LoopReconnect(active))
  /\ WF_vars(ControllerCheck(active))
  /\ WF_vars(SubscribeAll(active))
  /\ WF_vars(Disconnect(active))

(***************************************************************************)
(* Properties                                                              *)
(***************************************************************************)
AllDelivered ==
  /\ Wildcard \in subs["production"]
  /\ DOMAIN inflight = {}

\* The replica field fed by topic tp holds value v.
Agrees(r, tp, v) ==
  CASE tp = Topics.MATCH_INIT ->
         r.match_id = v.match_id /\ r.started_at = v.started_at
    [] tp = Topics.MATCH_RESET -> TRUE
    [] tp = Topics.MATCH_TITLE -> r.title = v
    [] tp = Topics.MATCH_STIPULATIONS -> r.stipulations = v
    [] tp = Topics.MATCH_CROWD_METER -> r.crowd_meter = v
    [] OTHER ->
         LET pl == r.player[ParseInt(tp[3])]
         IN CASE tp[4] = "competitor" -> pl.competitor_uuid = v
              [] tp[4] = "hand_count" -> pl.hand_count = v
              [] tp[4] = "deck_count" -> pl.deck_count = v
              [] tp[4] = "turns_passed" -> pl.turns_passed = v
              [] OTHER -> TRUE

\* C1: a production client that subscribed after a snapshot was published
\* (an earlier reset allowed) holds, once every retained message has been
\* delivered, the last published value of each topic in the matching replica
\* field, whatever the order of delivery across topics.
C1_ReplicaEqualsLastPublished ==
  (AllDelivered /\ lateJoin /\ live) =>
    \A tp \in DOMAIN lastPub : Agrees(replica, tp, lastPub[tp])

IsPlayerTopic(tp) == Len(tp) = 4 /\ tp[2] = "player"

\* C2: in every full-snapshot publish the match-init record is issued before
\* the first record of any per-player topic.
C2_InitBeforePlayers ==
  lastOp.op = "start_match" =>
    \A i \in DOMAIN pubLog :
      IsPlayerTopic(pubLog[i]) =>
        \E j \in 1..(i - 1) : pubLog[j] = Topics.MATCH_INIT

C2_Witness ==
  /\ lastOp.op = "start_match"
  /\ \E i \in DOMAIN pubLog :
        pubLog[i] = <<"supershow", "player", "1", "competitor">>

PlayerFields ==
  << "competitor", "hand_count", "deck_count", "turn_roll", "turns_passed",
     "finish_roll", "breakout_rolls" >>

FullSnapshotTopics ==
  << Topics.MATCH_INIT, Topics.MATCH_TITLE, Topics.MATCH_STIPULATIONS,
     Topics.MATCH_CROWD_METER >>
  \o [k \in 1..7 |-> <<"supershow", "player", "1", PlayerFields[k]>>]
  \o [k \in 1..7 |-> <<"supershow", "player", "2", PlayerFields[k]>>]

\* C3: a full-snapshot publish runs to completion and issues the match-init
\* record, the three match-level fields, the seven fields of player 1 and the
\* seven fields of player 2, in this order.
C3_SnapshotComplete ==
  lastOp.op = "start_match" =>
    /\ ~lastOp.raised
    /\ pubLog = FullSnapshotTopics

\* C4: after connect() immediately followed by subscribe_all(), once the
\* production client is Connected it holds exactly one subscription, to the
\* wildcard, in every interleaving with the connection acknowledgement.
C4_OneSubscription ==
  (active = "production" /\ mpc["production"] = "running"
   /\ connected["production"] /\ nzDisc = 0) =>
    subs["production"] = {Wildcard}

\* C5: a publish() made while not Connected returns failure, reaches the
\* broker neither then nor after a later reconnect, and is queued nowhere.
C5_DisconnectedPublishDropped ==
  /\ pubOk + pubDropped = pubCalls
  /\ brokerRecv = pubOk
  /\ \A c \in Clients : pending[c] = 0

C5_Witness ==
  /\ pubDropped >= 1
  /\ nzDisc >= 1
  /\ connected["controller"]

ConnectionWanted ==
  /\ mpc[active] \in {"connect_returned", "running"}
  /\ ~explicitDisc

\* C6: without an explicit disconnect(), whenever the broker is reachable the
\* client eventually is Connected (or the broker goes away again), also
\* after a failed initial connect() and after a failed reconnect attempt.
C6_EventuallyReconnected ==
  (ConnectionWanted /\ brokerUp) ~>
    (connected[active] \/ ~brokerUp \/ explicitDisc)

\* C7: the delay waited before the Nth consecutive retry is
\* min(reconnect_delay_min * 2^(N-1), reconnect_delay_max).
C7_BackoffDelay ==
  failures >= 1 =>
    lastSleep = Min2(ReconnectDelayMin * Pow2(failures - 1), ReconnectDelayMax)

C7_Witness ==
  /\ failures >= 7
  /\ lastSleep = ReconnectDelayMax

\* C8: an unexpected disconnection followed by a successful reconnection
\* passes through exactly Connected, Disconnected, Backoff, Connecting,
\* Connected.
C8_TraverseStates ==
  (connected[active] /\ Len(trace) > 1 /\ trace[1] = "Connected"
   /\ ~disturbed) =>
    trace = <<"Connected", "Disconnected", "Backoff", "Connecting", "Connected">>

C8_Witness ==
  /\ connected[active]
  /\ ~disturbed
  /\ trace = <<"Connected", "Disconnected", "Backoff", "Connecting", "Connected">>

\* C9: a successful connection resets the backoff delay to the minimum, so
\* the first retry after it waits exactly reconnect_delay_min however many
\* failures came before.
C9_DelayResetOnSuccess ==
  /\ connected[active] => reconnect_delay[active] = ReconnectDelayMin
  /\ (failures = 1 /\ dpc[active] = "backoff") => lastSleep = ReconnectDelayMin

C9_Witness ==
  /\ prevFailures >= 3
  /\ failures = 1
  /\ dpc[active] = "backoff"
  /\ lastSleep = ReconnectDelayMin

\* C10: a clean disconnect starts no backoff wait and no reconnect attempt;
\* every disconnect with a non-zero code starts exactly one wait, followed by
\* exactly one reconnect attempt.
C10_ReconnectOnlyOnUnclean ==
  /\ sleeps = nzDisc - (IF dpc[active] = "disconnected" THEN 1 ELSE 0)
  /\ reconnects = sleeps - (IF dpc[active] = "backoff" THEN 1 ELSE 0)

C10_Witness ==
  /\ cleanDisc >= 1
  /\ nzDisc >= 2
  /\ reconnects = nzDisc

\* C11: once disconnect() has returned the connection state is Disconnected
\* and stays so: no callback sets the flag, no session is opened and no
\* reconnect attempt is made, also when disconnect() was called while the
\* loop thread was inside the backoff wait or the reconnect of the handler.
C11_StaysDisconnected ==
  /\ [](mpc[active] = "stopped" => ConnectionState(active) = "Disconnected")
  /\ [][mpc[active] = "stopped" =>
          /\ reconnects' = reconnects
          /\ sleeps' = sleeps
          /\ sock'[active] = "none"
          /\ ~connected'[active]]_vars

C11_Witness ==
  /\ mpc[active] = "stopped"
  /\ calledIn = "backoff"
  /\ ConnectionState(active) = "Disconnected"

\* C12: subscribe() called while not Connected returns failure and registers
\* neither a subscription nor a handler; and a subscription comes to exist
\* only through a subscribe() call of the caller, never by the client itself
\* after a reconnect.
C12_NoSubscribeWhenDisconnected ==
  /\ [](\A c \in Clients : \A handler \in BOOLEAN :
         LET res == subscribe(connected[c], subs[c], topic_handlers[c],
                              Wildcard, handler)
         IN ~connected[c] =>
              /\ ~res.ok
              /\ res.subs = subs[c]
              /\ res.topic_handlers = topic_handlers[c])
  /\ [][\A c \in Clients :
          ((subs'[c] # subs[c] /\ subs'[c] # {}) \/
           topic_handlers'[c] # topic_handlers[c]) =>
            /\ mpc[c] = "connect_returned"
            /\ mpc'[c] = "running"
            /\ connected[c]]_vars

C12_Witness ==
  /\ active = "production"
  /\ connected["production"]
  /\ nzDisc >= 1
  /\ lateJoin
  /\ mpc["production"] = "running"
  /\ subs["production"] = {}

\* C13: for every valid (domain, field, instance) of the schema, finish_roll
\* and breakout_rolls of players 1 and 2 included, the topic string is built
\* and the router parses it back to the same (domain, field, instance).
C13_BuildParseRoundTrip ==
  (ValidTriple(triple) /\ triple \in Triples) =>
    /\ built.st # "raised"
    /\ parsed.st # "dropped"
    /\ parsed.st = "ok" => parsed.triple = triple

\* The step hands the production client the message at the head of topic tp.
Delivered(tp) ==
  \/ tp \notin DOMAIN inflight'
  \/ Len(inflight'[tp]) < Len(inflight[tp])

\* C14: an inbound per-player message whose instance is outside {1,2} is
\* rejected or ignored: it changes no field of either player's replica.
C14_ForeignInstanceIgnored ==
  [][\A tp \in DOMAIN inflight :
       (Delivered(tp) /\ IsPlayerTopic(tp) /\ ParseInt(tp[3]) \notin PlayerIds)
         => replica'.player = replica.player]_vars

HandTopic(p) == player_topic(Topics.PLAYER_HAND_COUNT, p)
DeckTopic(p) == player_topic(Topics.PLAYER_DECK_COUNT, p)

\* The deck count a hand-count mutator publishes is 30 minus the hand count
\* it publishes with it.
PairAgrees(res) == res.calls[2].payload.n = 30 - res.calls[1].payload.n

\* C15: after any sequence of start, reset, increment and decrement, each
\* player's hand_count is within [0,30] and deck_count is 30 - hand_count,
\* and every published deck_count is 30 minus the hand_count published
\* with it.
C15_HandDeckInvariant ==
  \A p \in PlayerIds :
    /\ match_state.player[p].hand_count \in 0..30
    /\ match_state.player[p].deck_count = 30 - match_state.player[p].hand_count
    /\ (HandTopic(p) \in DOMAIN lastPub /\ DeckTopic(p) \in DOMAIN lastPub) =>
         lastPub[DeckTopic(p)].n = 30 - lastPub[HandTopic(p)].n
    /\ PairAgrees(increment_hand_count(match_state, p))
    /\ PairAgrees(decrement_hand_count(match_state, p))

C15_Witness ==
  /\ lastOp.op = "increment_hand_count"
  /\ lastOp.arg = PyInt(30)
  /\ match_state.player[lastOp.pid].hand_count = 30
  /\ match_state.player[lastOp.pid].deck_count = 0
  /\ HandTopic(1) \in DOMAIN lastPub

\* Roll values tried beyond those the controls of the model enter.
RollRange == (0 - 3)..16

Clamped(v) == Max2(1, Min2(12, v))

\* C16: for every integer roll value v passed to update_turn_roll,
\* update_finish_roll (not None) or add_breakout_roll, the value stored in
\* the controller's state and the value handed on for publishing is
\* max(1, min(12, v)).
C16_RollClamped ==
  /\ \A p \in PlayerIds, v \in RollRange :
       LET tr == update_turn_roll(match_state, p, "Power", v)
           fr == update_finish_roll(match_state, p, PyInt(v))
           br == add_breakout_roll(match_state, p, v)
           stored == br.ms.player[p].breakout_rolls
           sent == br.calls[1].payload.l
       IN /\ tr.ms.player[p].last_turn_roll.value = Clamped(v)
          /\ tr.calls[1].payload.value = PyInt(Clamped(v))
          /\ fr.ms.player[p].finish_roll = PyInt(Clamped(v))
          /\ fr.calls[1].payload = PyInt(Clamped(v))
          /\ stored[Len(stored)] = Clamped(v)
          /\ sent[Len(sent)] = Clamped(v)
  /\ lastOp.op = "update_turn_roll" =>
       match_state.player[lastOp.pid].last_turn_roll.value = Clamped(lastOp.arg.n)
  /\ (lastOp.op = "update_finish_roll" /\ lastOp.arg # PyNone) =>
       match_state.player[lastOp.pid].finish_roll = PyInt(Clamped(lastOp.arg.n))
  /\ lastOp.op = "add_breakout_roll" =>
       LET rolls == match_state.player[lastOp.pid].breakout_rolls
       IN rolls[Len(rolls)] = Clamped(lastOp.arg.n)
  /\ \A tp \in DOMAIN lastPub :
       (IsPlayerTopic(tp) /\ tp[4] = "turn_roll") =>
         lastPub[tp].value.n \in 1..12

C16_Witness ==
  /\ lastOp.op = "update_turn_roll"
  /\ lastOp.arg = PyInt(13)
  /\ match_state.player[lastOp.pid].last_turn_roll.value = 12
  /\ \E p \in PlayerIds : match_state.player[p].finish_roll = PyInt(1)
  /\ \E p \in PlayerIds : match_state.player[p].breakout_rolls = <<11>>

\* C17: each add_breakout_roll appends exactly one value, clamped to [1,12],
\* to the end of that player's list, leaving its earlier elements and the
\* other player's list as they were; a list gets shorter only through
\* clear_breakout_rolls, start_match or reset_match.
C17_BreakoutAppendOnly ==
  [][\A p \in PlayerIds :
       LET old == match_state.player[p].breakout_rolls
           new == match_state'.player[p].breakout_rolls
           added == ops' = ops + 1 /\ lastOp'.op = "add_breakout_roll"
       IN /\ (added /\ lastOp'.pid = p) =>
               new = Append(old, Clamped(lastOp'.arg.n))
          /\ (added /\ lastOp'.pid # p) => new = old
          /\ Len(new) < Len(old) =>
               /\ ops' = ops + 1
               /\ lastOp'.op \in {"clear_breakout_rolls", "start_match",
                                   "reset_match"}]_vars

C17_Witness ==
  /\ lastOp.op = "add_breakout_roll"
  /\ match_state.player[lastOp.pid].breakout_rolls = <<11, 12, 1>>

\* C18: while match_started is false no controller operation other than
\* start_match itself makes a publish call to any topic; what it changes is
\* the controller's own state only.
C18_NoPublishBeforeStart ==
  [][(~match_started /\ ops' = ops + 1 /\ lastOp'.op # "start_match") =>
       /\ pubLog' = <<>>
       /\ pubCalls' = pubCalls
       /\ retained' = retained]_vars

\* The match is active: start_match has been called and no reset_match since.
Active == match_state.started_at # PyNone

MatchMutators ==
  [ update_title |-> "title", update_stipulations |-> "stipulations",
    update_crowd_meter |-> "crowd_meter" ]

PlayerMutators ==
  [ update_turn_roll |-> "turn_roll", update_finish_roll |-> "finish_roll",
    add_breakout_roll |-> "breakout_rolls",
    clear_breakout_rolls |-> "breakout_rolls",
    increment_turns_passed |-> "turns_passed" ]

\* The topic of the field an operation mutates.
MutatedTopic(op) ==
  IF op.op \in DOMAIN MatchMutators
    THEN <<"supershow", "match", MatchMutators[op.op]>>
    ELSE <<"supershow", "player", IntText[op.pid], PlayerMutators[op.op]>>

\* C19: while the match is active each discrete controller mutation makes
\* exactly one publish call, to the topic of the field it mutated.
C19_OnePublishPerMutation ==
  [][(Active /\ ops' = ops + 1
      /\ lastOp'.op \in DOMAIN MatchMutators \cup DOMAIN PlayerMutators) =>
       pubLog' = <<MutatedTopic(lastOp')>>]_vars

\* C20: reset_match publishes exactly one message, the reset signal, and
\* leaves the broker's retained value of every per-field topic as it was.
C20_ResetKeepsRetainedFields ==
  [][(ops' = ops + 1 /\ lastOp'.op = "reset_match") =>
       /\ pubLog' = <<Topics.MATCH_RESET>>
       /\ DOMAIN retained' \subseteq DOMAIN retained \cup {Topics.MATCH_RESET}
       /\ \A tp \in DOMAIN retained \ {Topics.MATCH_RESET} :
            tp \in DOMAIN retained' /\ retained'[tp] = retained[tp]]_vars

C20_Witness ==
  /\ lastOp.op = "reset_match"
  /\ Topics.MATCH_RESET \in DOMAIN retained
  /\ Topics.MATCH_TITLE \in DOMAIN retained
  /\ HandTopic(1) \in DOMAIN retained
  /\ match_state = create_initial_state

\* C21: every state topic that reached the broker is held retained, and
\* the broker never holds a retained message on the reset topic (control
\* signals are published with retain=false).
C21_ResetNeverRetained ==
  /\ \A tp \in DOMAIN lastPub :
       tp # Topics.MATCH_RESET => tp \in DOMAIN retained
  /\ Topics.MATCH_RESET \notin DOMAIN retained

\* C22: after the replica state manager has handled a reset, every field of
\* the replica (match id, title, stipulations, crowd meter, start time and
\* all fields of both players) holds its empty default, and exactly one
\* notification, the reset notification, was emitted.
C22_ResetToDefaults ==
  delivery.handler = "update_match_reset" =>
    /\ delivery.outcome = "applied"
    /\ replica = EmptyReplica
    /\ delivery.notes = <<notify_ui("match_reset", "")>>

\* A reset was handled by a replica that held something else than defaults.
C22_Witness ==
  delivery.handler = "update_match_reset" /\ delivery.changed

\* C23: every update the replica state manager handles, match-init
\* included, emits exactly one change notification to the view callback.
C23_OneNotificationPerUpdate ==
  delivery.outcome = "applied" => Len(delivery.notes) = 1

\* C24: when the lookup of a competitor reference returns not-found or
\* raises, the update is still applied (the replica's competitor reference
\* is the received value), the notification is still emitted, without the
\* card, and no error reaches the router.
C24_LookupFailureStillApplies ==
  (/\ delivery.handler = "update_player_competitor"
   /\ delivery.look \in {"not_found", "raises"}) =>
    /\ delivery.outcome = "applied"
    /\ replica.player[get_player(ParseInt(delivery.topic[3]))].competitor_uuid
         = delivery.payload
    /\ delivery.notes = <<notify_ui("player_competitor", "None")>>

\* A competitor update whose lookup raised.
C24_Witness ==
  /\ delivery.handler = "update_player_competitor"
  /\ delivery.look = "raises"
  /\ delivery.changed

\* A field the schema does not know, under a domain it knows.
Unrecognized(topic) ==
  /\ Len(topic) >= 3
  /\ topic[1] = "supershow"
  /\ \/ /\ topic[2] = "match"
        /\ topic[3] \notin MatchFields
     \/ /\ topic[2] = "player"
        /\ Len(topic) = 4
        /\ ParseInt(topic[3]) \in PlayerIds
        /\ topic[4] \notin RoutedPlayerFields

\* C25: a message on an unrecognized field name under a recognized domain is
\* dropped by the router: no handler is invoked, the replica and the
\* registered handler table are unchanged, no notification is emitted and no
\* exception leaves the router.
C25_UnknownFieldDropped ==
  [][\A tp \in DOMAIN inflight :
       (Delivered(tp) /\ Unrecognized(tp) /\ Decodable(Head(inflight[tp])))
         => /\ delivery'.outcome = "dropped"
            /\ delivery'.handler = "none"
            /\ delivery'.notes = <<>>
            /\ replica' = replica
            /\ topic_handlers' = topic_handlers
            /\ loopRunning' = loopRunning]_vars

\* An unknown field was dropped by a router whose replica holds state.
C25_Witness ==
  /\ delivery.outcome = "dropped"
  /\ Unrecognized(delivery.topic)
  /\ replica # EmptyReplica

\* The failures the claim names: an instance segment that is no integer, a
\* turn-roll payload that is no record.
NamedFailure(topic, payload) ==
  /\ Len(topic) = 4
  /\ topic[1] = "supershow"
  /\ topic[2] = "player"
  /\ \/ ParseInt(topic[3]) < 0
     \/ (topic[4] = "turn_roll" /\ ~IsDict(payload))

Failed(d) == d.outcome \notin {"none", "applied", "dropped"}

C27_UndecodableDropped ==
  [][\A tp \in DOMAIN inflight :
       (Delivered(tp) /\ ~Decodable(Head(inflight[tp]))) =>
         /\ delivery'.outcome # "propagated"
         /\ delivery'.handler = "none"
         /\ replica' = replica
         /\ loopRunning'["production"]]_vars

InRange(v, lo, hi) == v.t = "int" => (lo <= v.n /\ v.n <= hi)

\* C28: numeric values from the bus are clamped before they are stored: in
\* every replica state crowd_meter is within [0,10], each hand_count within
\* [0,30] and each turn-roll, finish-roll and breakout-roll value within
\* [1,12].
C28_ReplicaClamped ==
  /\ InRange(replica.crowd_meter, 0, 10)
  /\ \A p \in PlayerIds :
       LET pl == replica.player[p]
       IN /\ InRange(pl.hand_count, 0, 30)
          /\ pl.last_turn_roll.t = "roll" =>
               InRange(pl.last_turn_roll.value, 1, 12)
          /\ InRange(pl.finish_roll, 1, 12)
          /\ pl.breakout_rolls.t = "list" =>
               \A k \in DOMAIN pl.breakout_rolls.l :
                 1 <= pl.breakout_rolls.l[k] /\ pl.breakout_rolls.l[k] <= 12

\* C29: after any sequence of controller operations with arbitrary integer
\* arguments, start_match included, the controller's crowd_meter is within
\* [0,10] and so is every crowd_meter value that was published.
C29_CrowdMeterInRange ==
  /\ match_state.crowd_meter \in 0..10
  /\ Topics.MATCH_CROWD_METER \in DOMAIN lastPub =>
       InRange(lastPub[Topics.MATCH_CROWD_METER], 0, 10)

\* C30: a client that connects and then subscribes to supershow/# with a
\* message handler has that handler invoked once for every inbound message
\* whose topic matches the pattern.
C30_WildcardHandlerInvoked ==
  (delivery.outcome # "none" /\ Matches(Wildcard, delivery.topic)) =>
    delivery.handler = "on_message"

\* C31: every view update caused by an inbound message runs in the view's
\* own execution context, the UI main thread: while the UI main loop is
\* running the dispatch thread of the connection never runs view code.
C31_ViewUpdatesOnMainThread ==
  (delivery.notes # <<>> /\ mpc["production"] = "running") =>
    delivery.thread = "main"

\* C32: applying the same value to the same replica field twice in a row
\* leaves the replica in exactly the state it had after the first
\* application, for every update handler of the replica state manager.
C32_ReapplyIsNoOp ==
  \A i \in DOMAIN ReplicaInbound :
    LET m == ReplicaInbound[i]
        once == Route(replica, m.topic, m.payload)
    IN Route(once, m.topic, m.payload) = once

\* A value was applied to a replica that already held it from an earlier
\* message.
C32_Witness ==
  /\ delivery.topic = Topics.MATCH_CROWD_METER
  /\ delivery.payload = PyInt(5)
  /\ delivery.outcome = "applied"
  /\ delivery.prev = "applied"
  /\ ~delivery.changed

\* C33: an inbound turn roll whose roll_type is not one of the known roll
\* types is treated as a decode failure: the replica's last turn roll is left
\* unchanged, never set to a roll with a substituted default type.
C33_UnknownRollTypeRejected ==
  [][\A tp \in DOMAIN inflight :
       LET w == Head(inflight[tp])
           roll_type == Get(Decode(w), "roll_type", PyStr(""))
       IN (/\ Delivered(tp)
           /\ Len(tp) = 4 /\ tp[2] = "player" /\ tp[4] = "turn_roll"
           /\ ParseInt(tp[3]) \in PlayerIds
           /\ Decodable(w) /\ IsDict(Decode(w))
           /\ ~(roll_type.t = "str" /\ roll_type.s \in RollTypes))
          => replica'.player = replica.player]_vars

\* The replica field a per-player topic field feeds.
ReplicaField(field) ==
  CASE field = "competitor" -> "competitor_uuid"
    [] field = "turn_roll" -> "last_turn_roll"
    [] field = "discard" -> "discard_pile"
    [] OTHER -> field

\* C39: a per-player field update for player p in {1,2} changes only that one
\* field of player p's replica; every other field of player p, every field
\* of the other player and every match-level field is left unchanged.
C39_PlayerUpdateFrame ==
  [][\A tp \in DOMAIN inflight :
       (/\ Delivered(tp)
        /\ Len(tp) = 4 /\ tp[1] = "supershow" /\ tp[2] = "player"
        /\ ParseInt(tp[3]) \in PlayerIds
        /\ tp[4] \in RoutedPlayerFields
        /\ Decodable(Head(inflight[tp])))
       => LET p == ParseInt(tp[3])
              f == ReplicaField(tp[4])
          IN [replica' EXCEPT !.player[p][f] = replica.player[p][f]]
               = replica]_vars

\* A hand count of player 1 was applied to a replica that holds a title.
C39_Witness ==
  /\ delivery.topic = <<"supershow", "player", "1", "hand_count">>
  /\ delivery.outcome = "applied"
  /\ delivery.changed
  /\ replica.title = PyStr("Cage Match")

\* C40: when the view callback raises while it is notified of a change, the
\* mutation of the replica has been applied and is kept, the exception does
\* not reach the router, and later updates are still applied and notified.
C40_ViewErrorContained ==
  [][\A tp \in DOMAIN inflight :
       (Delivered(tp) /\ Decodable(Head(inflight[tp]))) =>
         /\ delivery'.view = "raises" =>
              /\ delivery'.outcome = "applied"
              /\ delivery'.notes # <<>>
              /\ replica' = Route(replica, tp, Decode(Head(inflight[tp])))
              /\ loopRunning' = loopRunning
         /\ (delivery.view = "raises" /\ delivery'.outcome = "applied") =>
              /\ delivery'.notes # <<>>
              /\ replica' = Route(replica, tp, Decode(Head(inflight[tp])))]_vars

\* An update was applied and notified after the view callback had raised on
\* an update that changed the replica.
C40_Witness ==
  /\ delivery.prevView = "raises"
  /\ delivery.prev = "applied"
  /\ delivery.outcome = "applied"
  /\ delivery.changed
  /\ delivery.notes # <<>>
  /\ replica.title = PyStr("Cage Match")
  /\ replica.crowd_meter = PyInt(5)

\* C34: for every value the state publisher sends (a title or stipulations
\* string, a count, an unset finish roll, a list of breakout rolls), the
\* payload handed to the replica handler after encoding and decoding equals
\* the published value; a string such as "42" arrives as the same string.
C34_WireRoundTrip ==
  wire.st = "received" => wire.received = wire.value

\* C37: on an unexpected disconnect the disconnect callback is delivered
\* before the backoff wait and the reconnect attempt begin, so whenever the
\* connection is waiting in backoff the application has already been told
\* that it is disconnected.
C37_ToldBeforeBackoff ==
  dpc[active] = "backoff" => appTold = "disconnected"

\* C38: a controller mutation called with a player identifier outside {1,2}
\* raises before anything is changed: the state of both players and of the
\* match is left as it was and no publisher call is made.
C38_InvalidPlayerRejected ==
  [][(ops' = ops + 1 /\ lastOp'.op \in PlayerCalls
      /\ lastOp'.pid \notin PlayerIds) =>
       /\ lastOp'.raised
       /\ match_state' = match_state
       /\ match_started' = match_started
       /\ pubLog' = <<>>
       /\ pubCalls' = pubCalls
       /\ retained' = retained]_vars

C38_Witness ==
  /\ lastOp.op = "add_breakout_roll"
  /\ lastOp.pid = 3
  /\ lastOp.raised
  /\ Active
  /\ match_state.player[2].turns_passed = 1
  /\ match_state.player[2].breakout_rolls = <<>>

\* C36: after start_match has been invoked the match is active
\* (match_started is true), so that later mutations publish; this holds
\* whether or not the client is connected during start_match.
C36_StartedAfterStartMatch ==
  lastOp.op = "start_match" => match_started

\* The replica's last turn roll is the controller's.
SameRoll(mine, theirs) ==
  IF theirs = PyNone THEN mine = PyNone
  ELSE /\ mine # PyNone
       /\ mine.roll_type = theirs.roll_type
       /\ mine.value = PyInt(theirs.value)

\* Every replica field holds the controller's value of that field.
Mirrors(r, ms) ==
  /\ r.title = PyStr(ms.title)
  /\ r.stipulations = PyStr(ms.stipulations)
  /\ r.crowd_meter = PyInt(ms.crowd_meter)
  /\ \A p \in PlayerIds :
       /\ r.player[p].competitor_uuid = ms.player[p].competitor_uuid
       /\ r.player[p].hand_count = PyInt(ms.player[p].hand_count)
       /\ r.player[p].deck_count = PyInt(ms.player[p].deck_count)
       /\ SameRoll(r.player[p].last_turn_roll, ms.player[p].last_turn_roll)
       /\ r.player[p].turns_passed = PyInt(ms.player[p].turns_passed)
       /\ r.player[p].finish_roll = ms.player[p].finish_roll
       /\ r.player[p].breakout_rolls = PyList(ms.player[p].breakout_rolls)

\* C35: with the controller connected throughout and the subscriber
\* subscribed since before the first match, after any sequence of
\* start_match, mutations and reset_match, once every published message has
\* been delivered, every replica field equals the controller's field.  The
\* match is taken to be active, so that every mutation is one the controller
\* is meant to publish.
C35_ReplicaMirrorsController ==
  (AllDelivered /\ Active) => Mirrors(replica, match_state)

====
